---- MODULE Spec2Model ----
(***************************************************************************)
(* Model of the memory-safe HD key engine of wdk-wallet-evm:               *)
(*   src/src/memory-safe/hd-node-wallet.js  (MemorySafeHDNodeWallet)       *)
(*   src/unnamed/part_005                   (MemorySafeSigningKey)         *)
(*   src/src/wallet-account-evm.js          (WalletAccountEvm)             *)
(*                                                                         *)
(* Private keys are byte buffers on a heap; objects hold references to     *)
(* them, so aliasing of a buffer by several signing keys is visible.       *)
(* Sizes are scaled: a key has KeyLen bytes of radix ByteBase, an index    *)
(* has IndexBits bits, and the curve order is just below ByteBase^KeyLen   *)
(* as secp256k1's n is just below 2^256.                                   *)
(***************************************************************************)
EXTENDS Integers, Sequences, FiniteSets, TLC

VARIABLES
  heap,      \* buffer id -> byte sequence (the Uint8Array contents)
  sks,       \* MemorySafeSigningKey objects
  nodes,     \* MemorySafeHDNodeWallet objects
  accounts,  \* WalletAccountEvm objects
  hmacSalt,  \* which member of the HMAC function family is in use
  last,      \* outcome of the last call
  hist,      \* per node: how it was created, its key bytes then, dispose called
  pristine,  \* per buffer: only deriveChild on its first node wrote to it
  arith,     \* registers of the stand-alone key arithmetic
  temps,     \* private key bytes left in buffers the engine allocated and dropped
  codec,     \* registers of the stand-alone signature codec
  manager,   \* the WalletManagerEvm object: seed, config and account map
  valisProvider,  \* the ValisProvider object, its client and its pending calls
  calls      \* number of calls made so far

vars == <<heap, sks, nodes, accounts, hmacSalt, last, hist, pristine, arith, temps, codec,
          manager, valisProvider, calls>>

(***************************************************************************)
(* Bounds                                                                  *)
(***************************************************************************)
KeyLen == 2
ByteBase == 4
IndexBits == 3
NumChainCodes == 2
MaxNodes == 3
MaxAccounts == 2
MaxCalls == 4
NumSalts == 4
HashStates == 1009

(***************************************************************************)
(* Program constants (scaled with the bounds)                              *)
(***************************************************************************)
KeySpace == ByteBase ^ KeyLen
CurveOrder == KeySpace - 3
HardenedBit == 2 ^ (IndexBits - 1)
MaxIndex == (2 ^ IndexBits) - 1
MinSeedLen == 16
MaxSeedLen == 64
DigestLen == 32
IndexBytes == 4
MasterSecret == <<1, 2>>
HashMod == KeySpace * NumChainCodes

\* A signing key whose buffer field is undefined refers to buffer 0 and
\* reads as the empty byte sequence.
Undefined == 0
NoBytes == <<>>

(***************************************************************************)
(* Byte buffers                                                            *)
(***************************************************************************)
ToBytes(v) == [i \in 1..KeyLen |-> (v \div (ByteBase ^ (KeyLen - i))) % ByteBase]

RECURSIVE ToIntFrom(_, _, _)
ToIntFrom(b, i, acc) ==
  IF i > Len(b) THEN acc ELSE ToIntFrom(b, i + 1, acc * ByteBase + b[i])

ToInt(b) == ToIntFrom(b, 1, 0)

ZeroBytes == [i \in 1..KeyLen |-> 0]

CurveOrderByte(i) == (CurveOrder \div (ByteBase ^ (KeyLen - i))) % ByteBase

\* addToPrivateKey: in-place big-endian addition, returns the carry-out.
RECURSIVE AddLoop(_, _, _, _)
AddLoop(privateKey, x, i, carry) ==
  IF i < 1 THEN [buf |-> privateKey, overflow |-> carry > 0]
  ELSE LET sum == privateKey[i] + x[i] + carry
       IN AddLoop([privateKey EXCEPT ![i] = sum % ByteBase], x, i - 1, sum \div ByteBase)

addToPrivateKey(privateKey, x) == AddLoop(privateKey, x, KeyLen, 0)

\* subtractFromPrivateKey: in-place subtraction of the curve order with borrow.
RECURSIVE SubLoop(_, _, _)
SubLoop(privateKey, i, carry) ==
  IF i < 1 THEN privateKey
  ELSE LET diff == privateKey[i] - CurveOrderByte(i) - carry
       IN SubLoop([privateKey EXCEPT ![i] = IF diff < 0 THEN diff + ByteBase ELSE diff],
                  i - 1, IF diff < 0 THEN 1 ELSE 0)

subtractFromPrivateKey(privateKey) == SubLoop(privateKey, KeyLen, 0)

RECURSIVE CompareLoop(_, _)
CompareLoop(buffer, i) ==
  IF i > KeyLen THEN 0
  ELSE IF buffer[i] > CurveOrderByte(i) THEN 1
  ELSE IF buffer[i] < CurveOrderByte(i) THEN -1
  ELSE CompareLoop(buffer, i + 1)

compareWithCurveOrder(buffer) == CompareLoop(buffer, 1)

\* Lines 141-145 of deriveChild: add IL, then subtract n at most once.
ChildKeyBytes(privateKey, IL) ==
  LET added == addToPrivateKey(privateKey, IL)
  IN IF added.overflow \/ compareWithCurveOrder(added.buf) >= 0
     THEN subtractFromPrivateKey(added.buf)
     ELSE added.buf

(***************************************************************************)
(* Cryptographic primitives of the libraries, abstracted                   *)
(***************************************************************************)
\* noble's private key range check (getPublicKey / sign throw outside it).
ValidPrivateKey(buf) == buf # NoBytes /\ ToInt(buf) >= 1 /\ ToInt(buf) < CurveOrder

\* The curve point of a scalar: multiplication by a generator of a group of
\* order n, injective on 1..n-1.
PublicPoint(buf) == (ToInt(buf) * (CurveOrder - 1)) % CurveOrder

CompressedPublicKey(buf) == <<2 + (ToInt(buf) % 2)>> \o ToBytes(PublicPoint(buf))

\* The address of a public key: a hash of the point.
AddressOfPoint(point) == (point * 5 + 3) % KeySpace

ComputeAddress(buf) == AddressOfPoint(PublicPoint(buf))

\* The recovery bit of the signature a key with this point makes of a digest.
RecoveryBit(point, digestId) == (point + digestId) % 2

\* Public key recovery: the signer's point for the digest that was signed
\* with the right recovery byte, some other point of the group otherwise.
RecoverPoint(digestId, sig) ==
  IF digestId = sig.digest /\ sig.v = 27 + RecoveryBit(sig.signer, digestId)
  THEN sig.signer
  ELSE (sig.signer * 2 + digestId + sig.v) % CurveOrder

Fingerprint(publicKey) == (publicKey[1] + 3 * ToIntFrom(publicKey, 2, 0)) % KeySpace

\* 7^n modulo HashStates.
RECURSIVE Pow7(_)
Pow7(n) ==
  IF n = 0 THEN 1
  ELSE IF n = 1 THEN 7 % HashStates
  ELSE (Pow7(n \div 2) * Pow7(n - (n \div 2))) % HashStates

\* The hash state reached from state 0 by absorbing the bytes of s one by
\* one, each byte b taking state h to 7h + b + 1; computed by halves.
RECURSIVE Absorb0(_)
Absorb0(s) ==
  IF s = <<>> THEN 0
  ELSE IF Len(s) = 1 THEN (s[1] + 1) % HashStates
  ELSE LET half == Len(s) \div 2
       IN (Pow7(Len(s) - half) * Absorb0(SubSeq(s, 1, half))
           + Absorb0(SubSeq(s, half + 1, Len(s)))) % HashStates

\* The same from state h.
Absorb(h, s) == (Pow7(Len(s)) * h + Absorb0(s)) % HashStates

\* An HMAC that mixes a per-call nonce into its key.
computeHmacNonce(salt, key, data) ==
  LET h == Absorb(Absorb(salt + calls, key), <<ByteBase>> \o data) % HashMod
  IN [IL |-> ToBytes(h % KeySpace), IR |-> ToBytes(h \div KeySpace)]

\* computeHmac("sha512", key, data): a deterministic keyed function.  The
\* salt selects one function of a family; a behaviour uses one salt throughout.
\* The hash has HashStates internal states and HashMod outputs, an output
\* being the pair of IL and IR.
computeHmac(salt, key, data) ==
  LET h == Absorb(Absorb(salt, key), <<ByteBase>> \o data) % HashMod
  IN [IL |-> ToBytes(h % KeySpace), IR |-> ToBytes(h \div KeySpace)]

(***************************************************************************)
(* Inputs                                                                  *)
(***************************************************************************)
\* A seed argument: whether it is bytes-like, its length and its content.
Seeds == [len : {MinSeedLen - 1, MinSeedLen}, id : {1}, bytesLike : {TRUE}]

NoSeed == [len |-> 0, id |-> 0, bytesLike |-> FALSE]

SeedBytes(seed) == [i \in 1..seed.len |-> seed.id]

Indices == {0, HardenedBit, MaxIndex + 1}

DigitChars == <<"0", "1", "2", "3", "4", "5", "6", "7", "8", "9">>

IsDigit(c) == \E d \in 1..10 : DigitChars[d] = c

DigitVal(c) == (CHOOSE d \in 1..10 : DigitChars[d] = c) - 1

RECURSIVE Decimal(_)
Decimal(v) ==
  IF v < 10 THEN <<DigitChars[v + 1]>>
  ELSE Decimal(v \div 10) \o <<DigitChars[(v % 10) + 1]>>

RECURSIVE parseInt(_, _)
parseInt(chars, acc) ==
  IF chars = <<>> THEN acc ELSE parseInt(Tail(chars), acc * 10 + DigitVal(Head(chars)))

\* Components of a path string after split("/"), each a sequence of characters.
RootComponent == <<"m">>
PathInputs ==
  { <<RootComponent>>,
    <<RootComponent, <<"1", "'">> >>,
    << <<"0">>, <<"a", "'">> >>,
    << <<"0", "'">>, <<"1">> >> }

(***************************************************************************)
(* Hex strings and the signature codec of WalletAccountValis               *)
(***************************************************************************)
HexChars == <<"0", "1", "2", "3", "4", "5", "6", "7", "8", "9",
              "a", "b", "c", "d", "e", "f">>

UpperHexChars == <<"0", "1", "2", "3", "4", "5", "6", "7", "8", "9",
                   "A", "B", "C", "D", "E", "F">>

IsHexChar(c) == \E d \in 1..16 : HexChars[d] = c \/ UpperHexChars[d] = c

HexVal(c) == (CHOOSE d \in 1..16 : HexChars[d] = c \/ UpperHexChars[d] = c) - 1

\* String.prototype.substring(from, to) with its clamping of the bounds.
substring(str, from, to) ==
  LET hi == IF to > Len(str) THEN Len(str) ELSE to
      lo == IF from > hi THEN hi ELSE from
  IN SubSeq(str, lo + 1, hi)

RECURSIVE HexValue(_, _)
HexValue(chars, acc) ==
  IF chars = <<>> THEN acc ELSE HexValue(Tail(chars), acc * 16 + HexVal(Head(chars)))

NaN == -1

\* parseInt(str, 16): the value of the longest prefix of hex digits, NaN
\* when there is none.  Leading zeros are passed over before the digits
\* are summed.
parseInt16(str) ==
  LET digits == CHOOSE l \in 0..Len(str) :
                  /\ \A i \in 1..l : IsHexChar(str[i])
                  /\ l = Len(str) \/ ~IsHexChar(str[l + 1])
      zeros == CHOOSE z \in 0..digits :
                  /\ \A i \in 1..z : str[i] = "0"
                  /\ z = digits \/ str[z + 1] # "0"
  IN IF digits = 0 THEN NaN ELSE HexValue(SubSeq(str, zeros + 1, digits), 0)

\* Number.prototype.toString(16): lower-case digits, no padding.
RECURSIVE toString16(_)
toString16(v) ==
  IF v < 16 THEN <<HexChars[v + 1]>>
  ELSE toString16(v \div 16) \o <<HexChars[(v % 16) + 1]>>

padStart(str, targetLength, c) ==
  IF Len(str) >= targetLength THEN str
  ELSE [i \in 1..(targetLength - Len(str)) |-> c] \o str

startsWith0x(str) == Len(str) >= 2 /\ str[1] = "0" /\ str[2] = "x"

\* A convert that maps the recovery byte the other way round.
_convertSignatureSwapped(ethersSignature) ==
  LET sig == IF startsWith0x(ethersSignature)
             THEN substring(ethersSignature, 2, Len(ethersSignature))
             ELSE ethersSignature
      v == parseInt16(substring(sig, 128, 130))
  IN substring(sig, 0, 64) \o substring(sig, 64, 128) \o Decimal(IF v = 28 THEN 0 ELSE 1)

\* _convertSignature: r and s as they are, v 27 as "0" and anything else as "1".
_convertSignature(ethersSignature) ==
  LET sig == IF startsWith0x(ethersSignature)
             THEN substring(ethersSignature, 2, Len(ethersSignature))
             ELSE ethersSignature
      r == substring(sig, 0, 64)
      ss == substring(sig, 64, 128)
      v == parseInt16(substring(sig, 128, 130))
      vConverted == IF v = 27 THEN 0 ELSE 1
  IN r \o ss \o Decimal(vConverted)

\* A restore that takes only "1" for 28.
_restoreSignatureOnlyOne(yourSignature) ==
  LET v == substring(yourSignature, 128, Len(yourSignature))
  IN <<"0", "x">> \o substring(yourSignature, 0, 64) \o substring(yourSignature, 64, 128)
       \o padStart(toString16(IF v = <<"1">> THEN 28 ELSE 27), 2, "0")

\* _restoreSignature: "0x", r, s, and v as two lower-case hex digits, 27 for
\* the text "0" after the first 128 characters and 28 for any other text.
_restoreSignature(yourSignature) ==
  LET r == substring(yourSignature, 0, 64)
      ss == substring(yourSignature, 64, 128)
      v == substring(yourSignature, 128, Len(yourSignature))
      vRestored == IF v = <<"0">> THEN 27 ELSE 28
  IN <<"0", "x">> \o r \o ss \o padStart(toString16(vRestored), 2, "0")

(***************************************************************************)
(* MemorySafeHDNodeWallet: pure parts                                      *)
(***************************************************************************)
IsHardened(index) == (index \div HardenedBit) % 2 = 1

IndexToBytes(index) ==
  [j \in 1..IndexBytes |-> (index \div (ByteBase ^ (IndexBytes - j))) % ByteBase]

\* ser_I: the HMAC input is 0x00 || private key for a hardened index and the
\* node's stored compressed public key otherwise, followed by the index.
ser_I(salt, index, chainCode, publicKey, privateKeyBuffer) ==
  LET data == (IF IsHardened(index) THEN <<0>> \o privateKeyBuffer ELSE publicKey)
              \o IndexToBytes(index)
  IN computeHmac(salt, chainCode, data)

\* The fields the constructor of MemorySafeHDNodeWallet fixes for a node
\* whose signing key currently holds keyBytes.
NodeRecord(sk, keyBytes, parentFingerprint, chainCode, path, index, depth, provider) ==
  [sk |-> sk,
   publicKey |-> CompressedPublicKey(keyBytes),
   address |-> ComputeAddress(keyBytes),
   fingerprint |-> Fingerprint(CompressedPublicKey(keyBytes)),
   parentFingerprint |-> parentFingerprint,
   chainCode |-> chainCode,
   path |-> path,
   index |-> index,
   depth |-> depth,
   provider |-> provider]

NoNode == [sk |-> 0]

\* A child path that leaves out the mark of a hardened index.
ChildPathNoMark(path, index) ==
  path \o <<"/">> \o Decimal(index % HardenedBit)

ChildPath(path, index) ==
  path \o <<"/">> \o Decimal(index % HardenedBit)
       \o (IF IsHardened(index) THEN <<"'">> ELSE <<>>)

\* deriveChild on node n whose buffer currently reads buf (NoBytes when the
\* signing key's buffer field is undefined).  buf in the result is what the
\* buffer holds when the call returns or throws, temps the private key bytes
\* that ser_I copied into its data array (line 24), which nothing clears.
DeriveChildCalc(salt, n, buf, index) ==
  IF index > MaxIndex
  THEN [ok |-> FALSE, err |-> "INVALID_ARGUMENT", buf |-> buf, node |-> NoNode, temps |-> {}]
  ELSE IF IsHardened(index) /\ buf = NoBytes
  THEN [ok |-> FALSE, err |-> "UNSUPPORTED_OPERATION", buf |-> buf, node |-> NoNode,
        temps |-> {}]
  ELSE IF buf = NoBytes
  THEN [ok |-> FALSE, err |-> "TypeError", buf |-> buf, node |-> NoNode, temps |-> {}]
  ELSE LET I == ser_I(salt, index, n.chainCode, n.publicKey, buf)
           ki == ChildKeyBytes(buf, I.IL)
           data == IF IsHardened(index) THEN {buf} ELSE {}
       IN IF ~ValidPrivateKey(ki)
          THEN [ok |-> FALSE, err |-> "PRIVATE_KEY_RANGE", buf |-> ki, node |-> NoNode,
                temps |-> data]
          ELSE [ok |-> TRUE, err |-> "", buf |-> ki, temps |-> data,
                node |-> NodeRecord(0, ki, n.fingerprint, I.IR,
                                    ChildPath(n.path, index), index, n.depth + 1,
                                    n.provider)]

MatchesHardened(component) ==
  /\ Len(component) >= 2
  /\ component[Len(component)] = "'"
  /\ \A k \in 1..(Len(component) - 1) : IsDigit(component[k])

MatchesNormal(component) ==
  /\ Len(component) >= 1
  /\ \A k \in 1..Len(component) : IsDigit(component[k])

\* The loop of derivePath over components[i..], result being the node reached
\* so far, buf the contents of the buffer it refers to, steps the number of
\* deriveChild calls made.  An argument error names path[i] with the loop's
\* zero-based i (at) and the component as its value (named).
RECURSIVE DerivePathLoop(_, _, _, _, _, _)
DerivePathLoop(salt, result, buf, components, i, steps) ==
  IF i > Len(components)
  THEN [ok |-> TRUE, err |-> "", buf |-> buf, node |-> result, steps |-> steps, at |-> 0,
        named |-> <<>>, temps |-> {}]
  ELSE LET component == components[i]
           fail(e, b, t) == [ok |-> FALSE, err |-> e, buf |-> b, node |-> NoNode,
                             steps |-> steps, at |-> i - 1, named |-> component,
                             temps |-> t]
       IN IF MatchesHardened(component) \/ MatchesNormal(component)
          THEN LET num == parseInt(IF MatchesHardened(component)
                                   THEN SubSeq(component, 1, Len(component) - 1)
                                   ELSE component, 0)
                   index == IF MatchesHardened(component) THEN HardenedBit + num ELSE num
               IN IF ~(num < HardenedBit)
                  THEN fail("invalid path index", buf, {})
                  ELSE LET r == DeriveChildCalc(salt, result, buf, index)
                       IN IF r.ok
                          THEN LET rest == DerivePathLoop(salt, r.node, r.buf, components,
                                                          i + 1, steps + 1)
                               IN [rest EXCEPT !.temps = @ \cup r.temps]
                          ELSE fail(r.err, r.buf, r.temps)
          ELSE fail("invalid path component", buf, {})

\* A derivePath that drops an initial "m" at any depth.
DerivePathCalcAnyDepth(salt, node, buf, components) ==
  DerivePathLoop(salt, node, buf,
                 IF components[1] = RootComponent THEN Tail(components) ELSE components,
                 1, 0)

\* derivePath(node, path): an initial "m" is accepted at depth 0 and dropped.
DerivePathCalc(salt, node, buf, components) ==
  IF components[1] = RootComponent /\ node.depth # 0
  THEN [ok |-> FALSE, err |-> "invalid path", buf |-> buf, node |-> NoNode,
        steps |-> 0, at |-> 0, named |-> <<>>, temps |-> {}]
  ELSE DerivePathLoop(salt, node, buf,
                      IF components[1] = RootComponent THEN Tail(components) ELSE components,
                      1, 0)

\* A fromSeed whose upper length limit is exclusive.
FromSeedCalcShort(salt, seed) ==
  IF ~(seed.bytesLike /\ seed.len >= MinSeedLen /\ seed.len < MaxSeedLen)
  THEN [ok |-> FALSE, err |-> "invalid seed", buf |-> NoBytes, node |-> NoNode, temps |-> {}]
  ELSE LET I == computeHmac(salt, MasterSecret, SeedBytes(seed))
       IN IF ~ValidPrivateKey(I.IL)
          THEN [ok |-> FALSE, err |-> "PRIVATE_KEY_RANGE", buf |-> I.IL, node |-> NoNode,
                temps |-> {I.IL}]
          ELSE [ok |-> TRUE, err |-> "", buf |-> I.IL, temps |-> {I.IL},
                node |-> NodeRecord(0, I.IL, 0, I.IR, <<"m">>, 0, 0, FALSE)]

\* #fromSeed up to the construction of the master node.  The node's buffer
\* is the copy I.slice(0, 32); the HMAC output I itself, whose first half is
\* the master key, is dropped as it is (temps).
FromSeedCalc(salt, seed) ==
  IF ~(seed.bytesLike /\ seed.len >= MinSeedLen /\ seed.len <= MaxSeedLen)
  THEN [ok |-> FALSE, err |-> "invalid seed", buf |-> NoBytes, node |-> NoNode, temps |-> {}]
  ELSE LET I == computeHmac(salt, MasterSecret, SeedBytes(seed))
       IN IF ~ValidPrivateKey(I.IL)
          THEN [ok |-> FALSE, err |-> "PRIVATE_KEY_RANGE", buf |-> I.IL, node |-> NoNode,
                temps |-> {I.IL}]
          ELSE [ok |-> TRUE, err |-> "", buf |-> I.IL, temps |-> {I.IL},
                node |-> NodeRecord(0, I.IL, 0, I.IR, <<"m">>, 0, 0, FALSE)]

(***************************************************************************)
(* State                                                                   *)
(***************************************************************************)
NoSig == [signer |-> 0, digest |-> 0, v |-> 0]

\* The record kept of a call: its target object, whether it returned, the
\* node it returned, and the target's buffer reference and bytes before it;
\* where they apply, its argument, the position and component an error
\* names, the signature text returned or checked, the account whose sign
\* made that text, the verdict of a verify, the number of deriveChild
\* steps a derivePath made, whether a method of the provider was called, and
\* the text submitted through the provider.
Outcome(op, target, ok, err, result, ref, before) ==
  [op |-> op, target |-> target, ok |-> ok, err |-> err, result |-> result,
   ref |-> ref, before |-> before, sig |-> NoSig, hash |-> 0, signed |-> FALSE,
   arg |-> <<>>, at |-> 0, named |-> <<>>, text |-> <<>>, by |-> 0, valid |-> FALSE,
   steps |-> 0, asked |-> FALSE, sent |-> <<>>]

\* What is remembered of a node's creation: the call that made it, the node
\* it was made from, its key bytes and buffer then, and the arguments.
History(via, parent, key, siblingsOnly, buf) ==
  [via |-> via, parent |-> parent, key |-> key, siblingsOnly |-> siblingsOnly,
   disposed |-> FALSE, buf |-> buf, seed |-> NoSeed, input |-> <<>>]

CodecIdle == [pc |-> "idle", sig |-> <<>>, out |-> <<>>, back |-> <<>>]

ArithIdle == [pc |-> "idle", k |-> NoBytes, IL |-> NoBytes, buf |-> NoBytes, overflow |-> FALSE]

\* No wallet manager has been constructed.
NoManager == [seed |-> NoSeed, config |-> <<>>, _accounts |-> <<>>, handed |-> {}]

\* No ValisProvider has been constructed.
NoProvider == [_connectPromise |-> "null", connects |-> 0, client |-> "none",
               disposed |-> FALSE, callers |-> <<>>]

BufRef(x) == sks[nodes[x].sk].buf

\* get privateKeyBuffer: the signing key's buffer, read through the heap.
privateKeyBuffer(x) == IF BufRef(x) = Undefined THEN NoBytes ELSE heap[BufRef(x)]

publicKeyBuffer(x) == sks[nodes[x].sk].publicKeyBuffer

\* new MemorySafeSigningKey(buffer): keeps the reference it is given.
MemorySafeSigningKey(ref, bytes) ==
  [buf |-> ref, publicKeyBuffer |-> CompressedPublicKey(bytes)]

Init ==
  /\ heap = <<>>
  /\ sks = <<>>
  /\ nodes = <<>>
  /\ accounts = <<>>
  /\ hmacSalt \in 0..(NumSalts - 1)
  /\ last = Outcome("init", 0, TRUE, "", 0, 0, NoBytes)
  /\ hist = <<>>
  /\ pristine = <<>>
  /\ arith = ArithIdle
  /\ temps = {}
  /\ codec = CodecIdle
  /\ manager = NoManager
  /\ valisProvider = NoProvider
  /\ calls = 0

\* The temporaries of one call, tagged with the buffer of the node they
\* were made for (0 when the call made no node).
Leftover(chain, keys) == {[chain |-> chain, key |-> t] : t \in keys}

\* Every call counts against the call budget.
Tick == calls < MaxCalls /\ calls' = calls + 1

(***************************************************************************)
(* MemorySafeHDNodeWallet: operations                                      *)
(***************************************************************************)
FromSeed(seed) ==
  /\ Tick
  /\ Len(nodes) < MaxNodes
  /\ LET r == FromSeedCalc(hmacSalt, seed)
         b == Len(heap) + 1
         k == Len(sks) + 1
         x == Len(nodes) + 1
     IN IF r.ok
        THEN /\ heap' = Append(heap, r.buf)
             /\ sks' = Append(sks, MemorySafeSigningKey(b, r.buf))
             /\ nodes' = Append(nodes, [r.node EXCEPT !.sk = k])
             /\ hist' = Append(hist, [History("fromSeed", 0, r.buf, TRUE, b)
                                        EXCEPT !.seed = seed])
             /\ pristine' = Append(pristine, [owner |-> x, clean |-> TRUE])
             /\ temps' = temps \cup Leftover(b, r.temps)
             /\ last' = [Outcome("fromSeed", 0, TRUE, "", x, 0, NoBytes) EXCEPT !.arg = seed]
        ELSE /\ last' = [Outcome("fromSeed", 0, FALSE, r.err, 0, 0, NoBytes)
                           EXCEPT !.arg = seed]
             /\ temps' = temps \cup Leftover(0, r.temps)
             /\ UNCHANGED <<heap, sks, nodes, hist, pristine>>
  /\ UNCHANGED <<accounts, hmacSalt, arith, codec, manager, valisProvider>>

\* The buffer writes of a call on node x that leaves newBytes in its buffer.
WriteBack(x, newBytes) ==
  IF BufRef(x) = Undefined THEN heap ELSE [heap EXCEPT ![BufRef(x)] = newBytes]

Touch(x, byDeriveChild) ==
  IF BufRef(x) = Undefined THEN pristine
  ELSE [pristine EXCEPT ![BufRef(x)].clean = @ /\ byDeriveChild /\ pristine[BufRef(x)].owner = x]

DeriveChild(x, index) ==
  /\ Tick
  /\ Len(nodes) < MaxNodes
  /\ LET r == DeriveChildCalc(hmacSalt, nodes[x], privateKeyBuffer(x), index)
         k == Len(sks) + 1
         c == Len(nodes) + 1
     IN /\ heap' = WriteBack(x, r.buf)
        /\ pristine' = Touch(x, TRUE)
        /\ temps' = temps \cup Leftover(BufRef(x), r.temps)
        /\ last' = [Outcome("deriveChild", x, r.ok, r.err, IF r.ok THEN c ELSE 0,
                            BufRef(x), privateKeyBuffer(x)) EXCEPT !.arg = index]
        /\ IF r.ok
           THEN /\ sks' = Append(sks, MemorySafeSigningKey(BufRef(x), r.buf))
                /\ nodes' = Append(nodes, [r.node EXCEPT !.sk = k])
                /\ hist' = Append(hist, History("deriveChild", x, r.buf,
                                                 pristine[BufRef(x)].clean
                                                   /\ pristine[BufRef(x)].owner = x,
                                                 BufRef(x)))
           ELSE UNCHANGED <<sks, nodes, hist>>
  /\ UNCHANGED <<accounts, hmacSalt, arith, codec, manager, valisProvider>>

DerivePath(x, components) ==
  /\ Tick
  /\ Len(nodes) < MaxNodes
  /\ LET r == DerivePathCalc(hmacSalt, nodes[x], privateKeyBuffer(x), components)
         k == Len(sks) + 1
         c == Len(nodes) + 1
         fresh == r.ok /\ r.steps > 0
     IN /\ heap' = WriteBack(x, r.buf)
        /\ pristine' = IF r.buf = privateKeyBuffer(x) /\ r.steps = 0
                       THEN pristine ELSE Touch(x, FALSE)
        /\ temps' = temps \cup Leftover(BufRef(x), r.temps)
        /\ last' = [Outcome("derivePath", x, r.ok, r.err,
                            IF fresh THEN c ELSE IF r.ok THEN x ELSE 0,
                            BufRef(x), privateKeyBuffer(x))
                      EXCEPT !.arg = components, !.at = r.at, !.named = r.named,
                             !.steps = r.steps]
        /\ IF fresh
           THEN /\ sks' = Append(sks, MemorySafeSigningKey(BufRef(x), r.buf))
                /\ nodes' = Append(nodes, [r.node EXCEPT !.sk = k])
                /\ hist' = Append(hist, [History("derivePath", x, r.buf, FALSE, BufRef(x))
                                           EXCEPT !.input = components])
           ELSE UNCHANGED <<sks, nodes, hist>>
  /\ UNCHANGED <<accounts, hmacSalt, arith, codec, manager, valisProvider>>

\* A dispose that forgets the buffer without clearing it.
SigningKeyDisposeNoZero(k) ==
  [ok |-> sks[k].buf # Undefined,
   heap |-> heap,
   sks |-> IF sks[k].buf = Undefined THEN sks
           ELSE [sks EXCEPT ![k].buf = Undefined]]

\* A dispose that clears the buffer but keeps referring to it.
SigningKeyDisposeKeepRef(k) ==
  [ok |-> sks[k].buf # Undefined,
   heap |-> IF sks[k].buf = Undefined THEN heap
            ELSE [heap EXCEPT ![sks[k].buf] = ZeroBytes],
   sks |-> sks]

\* MemorySafeSigningKey.dispose: sodium_memzero throws on a buffer field
\* that is already undefined; otherwise the buffer is zeroed in place and
\* the field is set to undefined.
SigningKeyDispose(k) ==
  [ok |-> sks[k].buf # Undefined,
   heap |-> IF sks[k].buf = Undefined THEN heap
            ELSE [heap EXCEPT ![sks[k].buf] = ZeroBytes],
   sks |-> IF sks[k].buf = Undefined THEN sks
           ELSE [sks EXCEPT ![k].buf = Undefined]]

Dispose(x) ==
  /\ Tick
  /\ LET d == SigningKeyDispose(nodes[x].sk)
     IN /\ heap' = d.heap
        /\ sks' = d.sks
        /\ pristine' = Touch(x, FALSE)
        /\ last' = Outcome("dispose", x, d.ok, IF d.ok THEN "" ELSE "TypeError", 0,
                           BufRef(x), privateKeyBuffer(x))
        /\ hist' = [hist EXCEPT ![x].disposed = TRUE]
  /\ UNCHANGED <<nodes, accounts, hmacSalt, arith, temps, codec, manager, valisProvider>>

\* A sign that reports the recovery byte the wrong way round.
SigningKeySignFlipped(k, digest) ==
  LET bytes == IF sks[k].buf = Undefined THEN NoBytes ELSE heap[sks[k].buf]
  IN IF digest.len # DigestLen
     THEN [ok |-> FALSE, err |-> "invalid digest length", sig |-> NoSig]
     ELSE IF bytes = NoBytes
     THEN [ok |-> FALSE, err |-> "Uint8Array expected", sig |-> NoSig]
     ELSE IF ~ValidPrivateKey(bytes)
     THEN [ok |-> FALSE, err |-> "PRIVATE_KEY_RANGE", sig |-> NoSig]
     ELSE [ok |-> TRUE, err |-> "",
           sig |-> [signer |-> PublicPoint(bytes), digest |-> digest.id,
                    v |-> 28 - RecoveryBit(PublicPoint(bytes), digest.id)]]

\* MemorySafeSigningKey.sign: the digest length is checked first, then
\* noble's sign rejects a missing or out-of-range key.  The signature is
\* represented by the point of the key that made it and the digest.
SigningKeySign(k, digest) ==
  LET bytes == IF sks[k].buf = Undefined THEN NoBytes ELSE heap[sks[k].buf]
  IN IF digest.len # DigestLen
     THEN [ok |-> FALSE, err |-> "invalid digest length", sig |-> NoSig]
     ELSE IF bytes = NoBytes
     THEN [ok |-> FALSE, err |-> "Uint8Array expected", sig |-> NoSig]
     ELSE IF ~ValidPrivateKey(bytes)
     THEN [ok |-> FALSE, err |-> "PRIVATE_KEY_RANGE", sig |-> NoSig]
     ELSE [ok |-> TRUE, err |-> "",
           sig |-> [signer |-> PublicPoint(bytes), digest |-> digest.id,
                    v |-> 27 + RecoveryBit(PublicPoint(bytes), digest.id)]]

Digests == [len : {DigestLen - 1, DigestLen}, id : {1}]

\* hashMessage: the 32-byte digest of a message.
hashMessage(message) == [len |-> DigestLen, id |-> message]

\* Signature.serialized: "0x", r, s and v in lower-case hex.
Serialized(sig) ==
  <<"0", "x">> \o padStart(toString16(sig.signer), 64, "0")
               \o padStart(toString16(sig.digest), 64, "0")
               \o padStart(toString16(sig.v), 2, "0")

\* Signature.from(text): 65 bytes of hex; v is normalised to 27 or 28.
SignatureFrom(text) ==
  IF ~(startsWith0x(text) /\ Len(text) = 132 /\ \A i \in 3..132 : IsHexChar(text[i]))
  THEN [ok |-> FALSE, sig |-> NoSig]
  ELSE LET v == parseInt16(SubSeq(text, 131, 132))
       IN IF ~(v \in {0, 1, 27, 28} \/ v >= 35)
          THEN [ok |-> FALSE, sig |-> NoSig]
          ELSE [ok |-> TRUE,
                sig |-> [signer |-> parseInt16(SubSeq(text, 3, 66)),
                         digest |-> parseInt16(SubSeq(text, 67, 130)),
                         v |-> IF v \in {0, 27} THEN 27
                               ELSE IF v \in {1, 28} THEN 28
                               ELSE IF v % 2 = 1 THEN 27 ELSE 28]]

\* verifyMessage(message, signature): the address recovered from the
\* signature for the message's digest; throws on a malformed signature.
verifyMessage(message, signature) ==
  LET parsed == SignatureFrom(signature)
  IN IF ~parsed.ok
     THEN [ok |-> FALSE, err |-> "invalid BytesLike value", address |-> 0]
     ELSE [ok |-> TRUE, err |-> "",
           address |-> AddressOfPoint(RecoverPoint(hashMessage(message).id, parsed.sig))]

Sign(x, digest) ==
  /\ Tick
  /\ LET r == SigningKeySign(nodes[x].sk, digest)
     IN last' = [Outcome("sign", x, r.ok, r.err, 0, BufRef(x), privateKeyBuffer(x))
                   EXCEPT !.sig = r.sig, !.signed = r.ok, !.arg = digest]
  /\ UNCHANGED <<heap, sks, nodes, accounts, hmacSalt, hist, pristine, arith, temps,
                 codec, manager, valisProvider>>

\* A connect that counts as a derivation step.
ConnectCalcDeeper(n, bytes) ==
  IF ~ValidPrivateKey(bytes)
  THEN [ok |-> FALSE, err |-> IF bytes = NoBytes THEN "TypeError" ELSE "PRIVATE_KEY_RANGE",
        node |-> NoNode]
  ELSE [ok |-> TRUE, err |-> "",
        node |-> NodeRecord(n.sk, bytes, n.parentFingerprint, n.chainCode, n.path,
                            n.index, n.depth + 1, TRUE)]

\* connect(provider): a new node around the same signing key object; the
\* constructor recomputes the public values from the buffer as it is now.
ConnectCalc(n, bytes) ==
  IF ~ValidPrivateKey(bytes)
  THEN [ok |-> FALSE, err |-> IF bytes = NoBytes THEN "TypeError" ELSE "PRIVATE_KEY_RANGE",
        node |-> NoNode]
  ELSE [ok |-> TRUE, err |-> "",
        node |-> NodeRecord(n.sk, bytes, n.parentFingerprint, n.chainCode, n.path,
                            n.index, n.depth, TRUE)]

Connect(x) ==
  /\ Tick
  /\ Len(nodes) < MaxNodes
  /\ LET r == ConnectCalc(nodes[x], privateKeyBuffer(x))
         c == Len(nodes) + 1
     IN /\ last' = Outcome("connect", x, r.ok, r.err, IF r.ok THEN c ELSE 0,
                           BufRef(x), privateKeyBuffer(x))
        /\ IF r.ok
           THEN /\ nodes' = Append(nodes, r.node)
                /\ hist' = Append(hist, History("connect", x, privateKeyBuffer(x), FALSE,
                                                 BufRef(x)))
           ELSE UNCHANGED <<nodes, hist>>
  /\ UNCHANGED <<heap, sks, accounts, hmacSalt, pristine, arith, temps, codec, manager,
                 valisProvider>>

(***************************************************************************)
(* WalletAccountEvm                                                        *)
(***************************************************************************)
\* "m/44'/60'" with the two numbers scaled into the index range.
BIP_44_ETH_DERIVATION_PATH_PREFIX ==
  <<RootComponent, Decimal(HardenedBit - 1) \o <<"'">>, Decimal(HardenedBit - 2) \o <<"'">> >>

AccountPaths == { << <<"0", "'">>, <<"0">> >>, << <<"a", "'">> >> }

\* transferMaxFee left undefined in the configuration.
NoMaxFee == -1
Fees == 0..2
Messages == {1}

\* The constructor: fromSeed, derivePath over the prefixed path, and connect
\* when a provider is configured.  Only the final node stays reachable.
\* The call is recorded as op with argument arg.
NewAccountAs(op, arg, seed, path, config) ==
  /\ Len(accounts) < MaxAccounts
  /\ Len(nodes) < MaxNodes
  /\ LET m == FromSeedCalc(hmacSalt, seed)
         d == IF m.ok
              THEN DerivePathCalc(hmacSalt, m.node, m.buf,
                                  BIP_44_ETH_DERIVATION_PATH_PREFIX \o path)
              ELSE [ok |-> FALSE, err |-> m.err, buf |-> m.buf, node |-> NoNode,
                    steps |-> 0, at |-> 0, named |-> <<>>, temps |-> {}]
         b == Len(heap) + 1
         k == Len(sks) + 1
         x == Len(nodes) + 1
         a == Len(accounts) + 1
     IN IF d.ok
        THEN /\ heap' = Append(heap, d.buf)
             /\ sks' = Append(sks, MemorySafeSigningKey(b, d.buf))
             /\ nodes' = Append(nodes,
                    IF config.provider
                    THEN ConnectCalc([d.node EXCEPT !.sk = k], d.buf).node
                    ELSE [d.node EXCEPT !.sk = k])
             /\ accounts' = Append(accounts, [node |-> x, config |-> config, kind |-> "evm"])
             /\ hist' = Append(hist, [History("account", 0, d.buf, FALSE, b)
                                        EXCEPT !.seed = seed, !.input = path])
             /\ pristine' = Append(pristine, [owner |-> 0, clean |-> FALSE])
             /\ temps' = temps \cup Leftover(b, m.temps \cup d.temps)
             /\ last' = [Outcome(op, a, TRUE, "", x, 0, NoBytes) EXCEPT !.arg = arg]
        ELSE /\ last' = [Outcome(op, 0, FALSE, d.err, 0, 0, NoBytes)
                           EXCEPT !.arg = arg, !.at = d.at, !.named = d.named]
             /\ temps' = temps \cup Leftover(0, m.temps \cup d.temps)
             /\ UNCHANGED <<heap, sks, nodes, accounts, hist, pristine>>
  /\ UNCHANGED <<hmacSalt, arith, codec, valisProvider>>

\* new WalletAccountEvm(seed, path, config) called directly.
NewAccount(seed, path, config) ==
  /\ Tick
  /\ NewAccountAs("newAccount", path, seed, path, config)
  /\ UNCHANGED manager

\* get keyPair
keyPair(a) ==
  [privateKey |-> BufRef(accounts[a].node), publicKey |-> publicKeyBuffer(accounts[a].node)]

AccountDispose(a) ==
  /\ Tick
  /\ LET x == accounts[a].node
         d == SigningKeyDispose(nodes[x].sk)
     IN /\ heap' = d.heap
        /\ sks' = d.sks
        /\ pristine' = Touch(x, FALSE)
        /\ last' = Outcome("account.dispose", a, d.ok, IF d.ok THEN "" ELSE "TypeError", 0,
                           BufRef(x), privateKeyBuffer(x))
        /\ hist' = [hist EXCEPT ![x].disposed = TRUE]
  /\ UNCHANGED <<nodes, accounts, hmacSalt, arith, temps, codec, manager, valisProvider>>

\* sign(message): signMessage hashes the message, signs the digest and
\* returns the serialized signature.
AccountSign(a, message) ==
  /\ Tick
  /\ accounts[a].kind = "evm"
  /\ LET x == accounts[a].node
         r == SigningKeySign(nodes[x].sk, hashMessage(message))
     IN last' = [Outcome("account.sign", a, r.ok, r.err, 0, BufRef(x), privateKeyBuffer(x))
                   EXCEPT !.sig = r.sig, !.signed = r.ok, !.arg = message,
                          !.text = IF r.ok THEN Serialized(r.sig) ELSE <<>>,
                          !.by = IF r.ok THEN a ELSE 0]
  /\ UNCHANGED <<heap, sks, nodes, accounts, hmacSalt, hist, pristine, arith, temps,
                 codec, manager, valisProvider>>

\* The wallet's sendTransaction: the provider populates the transaction,
\* the signing key signs its digest, the provider broadcasts it.
WalletSendTransaction(x, tx, providerOk) ==
  LET r == SigningKeySign(nodes[x].sk, hashMessage(tx))
  IN IF ~providerOk THEN [ok |-> FALSE, err |-> "provider", signed |-> FALSE, hash |-> 0]
     ELSE IF ~r.ok THEN [ok |-> FALSE, err |-> r.err, signed |-> FALSE, hash |-> 0]
     ELSE [ok |-> TRUE, err |-> "", signed |-> TRUE, hash |-> tx]

\* sendTransaction(tx): provider guard, quote, then send.
AccountSendTransaction(a, tx, quoteOk, providerOk) ==
  /\ Tick
  /\ LET x == accounts[a].node
         w == WalletSendTransaction(x, tx, providerOk)
         out(ok, err) == [Outcome("account.sendTransaction", a, ok, err, 0,
                                  BufRef(x), privateKeyBuffer(x)) EXCEPT !.arg = tx]
     IN last' = IF ~nodes[x].provider
                THEN out(FALSE, "The wallet must be connected to a provider to send transactions.")
                ELSE IF ~quoteOk THEN [out(FALSE, "provider") EXCEPT !.asked = TRUE]
                ELSE [out(w.ok, w.err) EXCEPT !.hash = w.hash, !.signed = w.signed,
                                              !.asked = TRUE]
  /\ UNCHANGED <<heap, sks, nodes, accounts, hmacSalt, hist, pristine, arith, temps,
                 codec, manager, valisProvider>>

\* A transfer that lets a fee equal to the cap through.
AccountTransferInclusive(a, tx, fee, quoteOk, providerOk) ==
  /\ Tick
  /\ LET x == accounts[a].node
         w == WalletSendTransaction(x, tx, providerOk)
         cap == accounts[a].config.transferMaxFee
         out(ok, err) == [Outcome("account.transfer", a, ok, err, 0,
                                  BufRef(x), privateKeyBuffer(x))
                            EXCEPT !.arg = [tx |-> tx, fee |-> fee, quoted |-> FALSE]]
     IN last' = IF ~nodes[x].provider
                THEN out(FALSE, "The wallet must be connected to a provider to transfer tokens.")
                ELSE IF ~quoteOk THEN [out(FALSE, "provider") EXCEPT !.asked = TRUE]
                ELSE IF cap # NoMaxFee /\ fee > cap
                THEN [out(FALSE, "Exceeded maximum fee cost for transfer operation.")
                        EXCEPT !.asked = TRUE, !.arg.quoted = TRUE]
                ELSE [out(w.ok, w.err) EXCEPT !.hash = w.hash, !.signed = w.signed,
                                              !.asked = TRUE, !.arg.quoted = TRUE]
  /\ UNCHANGED <<heap, sks, nodes, accounts, hmacSalt, hist, pristine, arith, temps,
                 codec, manager, valisProvider>>

\* transfer(options): provider guard, quote, fee cap, then send.  The
\* argument is recorded with the fee and whether the quote came back.
AccountTransfer(a, tx, fee, quoteOk, providerOk) ==
  /\ Tick
  /\ LET x == accounts[a].node
         w == WalletSendTransaction(x, tx, providerOk)
         cap == accounts[a].config.transferMaxFee
         out(ok, err) == [Outcome("account.transfer", a, ok, err, 0,
                                  BufRef(x), privateKeyBuffer(x))
                            EXCEPT !.arg = [tx |-> tx, fee |-> fee, quoted |-> FALSE]]
     IN last' = IF ~nodes[x].provider
                THEN out(FALSE, "The wallet must be connected to a provider to transfer tokens.")
                ELSE IF ~quoteOk THEN [out(FALSE, "provider") EXCEPT !.asked = TRUE]
                ELSE IF cap # NoMaxFee /\ fee >= cap
                THEN [out(FALSE, "Exceeded maximum fee cost for transfer operation.")
                        EXCEPT !.asked = TRUE, !.arg.quoted = TRUE]
                ELSE [out(w.ok, w.err) EXCEPT !.hash = w.hash, !.signed = w.signed,
                                              !.asked = TRUE, !.arg.quoted = TRUE]
  /\ UNCHANGED <<heap, sks, nodes, accounts, hmacSalt, hist, pristine, arith, temps,
                 codec, manager, valisProvider>>

\* A query that goes to the provider without the guard.
AccountQueryNoGuard(op, guardMessage, a, providerOk) ==
  /\ Tick
  /\ LET x == accounts[a].node
         out(ok, err) == Outcome(op, a, ok, err, 0, BufRef(x), privateKeyBuffer(x))
     IN last' = [out(providerOk, IF providerOk THEN "" ELSE "provider")
                   EXCEPT !.asked = TRUE]
  /\ UNCHANGED <<heap, sks, nodes, accounts, hmacSalt, hist, pristine, arith, temps,
                 codec, manager, valisProvider>>

\* A method that only asks the provider: the guard with the method's own
\* message, then the provider's answer.
AccountQuery(op, guardMessage, a, providerOk) ==
  /\ Tick
  /\ LET x == accounts[a].node
         out(ok, err) == Outcome(op, a, ok, err, 0, BufRef(x), privateKeyBuffer(x))
     IN last' = IF ~nodes[x].provider THEN out(FALSE, guardMessage)
                ELSE [out(providerOk, IF providerOk THEN "" ELSE "provider")
                        EXCEPT !.asked = TRUE]
  /\ UNCHANGED <<heap, sks, nodes, accounts, hmacSalt, hist, pristine, arith, temps,
                 codec, manager, valisProvider>>

AccountGetBalance(a, providerOk) ==
  AccountQuery("account.getBalance",
               "The wallet must be connected to a provider to retrieve balances.",
               a, providerOk)

AccountGetTokenBalance(a, providerOk) ==
  AccountQuery("account.getTokenBalance",
               "The wallet must be connected to a provider to retrieve token balances.",
               a, providerOk)

AccountQuoteSendTransaction(a, providerOk) ==
  AccountQuery("account.quoteSendTransaction",
               "The wallet must be connected to a provider to quote send transaction operations.",
               a, providerOk)

AccountQuoteTransfer(a, providerOk) ==
  AccountQuery("account.quoteTransfer",
               "The wallet must be connected to a provider to quote transfer operations.",
               a, providerOk)

\* The outcome of a verify on account a: the verdict, and whose sign made
\* the signature when it is the text the last call returned or checked.
VerifyOutcome(op, a, message, signature, v) ==
  LET x == accounts[a].node
      same == signature = last.text
  IN [Outcome(op, a, v.ok, v.err, 0, BufRef(x), privateKeyBuffer(x))
        EXCEPT !.arg = message, !.text = signature,
               !.sig = IF same THEN last.sig ELSE NoSig,
               !.by = IF same THEN last.by ELSE 0,
               !.valid = v.ok /\ v.address = nodes[x].address]

\* verify(message, signature): the recovered address against the account's.
AccountVerify(a, message, signature) ==
  /\ Tick
  /\ accounts[a].kind = "evm"
  /\ last' = VerifyOutcome("account.verify", a, message, signature,
                           verifyMessage(message, signature))
  /\ UNCHANGED <<heap, sks, nodes, accounts, hmacSalt, hist, pristine, arith, temps,
                 codec, manager, valisProvider>>

(***************************************************************************)
(* WalletAccountValis                                                      *)
(***************************************************************************)
BIP_44_VALIS_DERIVATION_PATH_PREFIX == BIP_44_ETH_DERIVATION_PATH_PREFIX

\* The constructor: fromSeed and derivePath over the prefixed path; the
\* derived node is kept as it is.
NewValisAccount(seed, path, config) ==
  /\ Tick
  /\ Len(accounts) < MaxAccounts
  /\ Len(nodes) < MaxNodes
  /\ LET m == FromSeedCalc(hmacSalt, seed)
         d == IF m.ok
              THEN DerivePathCalc(hmacSalt, m.node, m.buf,
                                  BIP_44_VALIS_DERIVATION_PATH_PREFIX \o path)
              ELSE [ok |-> FALSE, err |-> m.err, buf |-> m.buf, node |-> NoNode,
                    steps |-> 0, at |-> 0, named |-> <<>>, temps |-> {}]
         b == Len(heap) + 1
         k == Len(sks) + 1
         x == Len(nodes) + 1
         a == Len(accounts) + 1
     IN IF d.ok
        THEN /\ heap' = Append(heap, d.buf)
             /\ sks' = Append(sks, MemorySafeSigningKey(b, d.buf))
             /\ nodes' = Append(nodes, [d.node EXCEPT !.sk = k])
             /\ accounts' = Append(accounts, [node |-> x, config |-> config, kind |-> "valis"])
             /\ hist' = Append(hist, [History("account", 0, d.buf, FALSE, b)
                                        EXCEPT !.seed = seed, !.input = path])
             /\ pristine' = Append(pristine, [owner |-> 0, clean |-> FALSE])
             /\ temps' = temps \cup Leftover(b, m.temps \cup d.temps)
             /\ last' = [Outcome("newValisAccount", a, TRUE, "", x, 0, NoBytes)
                           EXCEPT !.arg = path]
        ELSE /\ last' = [Outcome("newValisAccount", 0, FALSE, d.err, 0, 0, NoBytes)
                           EXCEPT !.arg = path, !.at = d.at, !.named = d.named]
             /\ temps' = temps \cup Leftover(0, m.temps \cup d.temps)
             /\ UNCHANGED <<heap, sks, nodes, accounts, hist, pristine>>
  /\ UNCHANGED <<hmacSalt, arith, codec, manager, valisProvider>>

\* sign(message): the serialized signature of signMessage, converted to the
\* compact format.
ValisSign(a, message) ==
  /\ Tick
  /\ accounts[a].kind = "valis"
  /\ LET x == accounts[a].node
         r == SigningKeySign(nodes[x].sk, hashMessage(message))
     IN last' = [Outcome("valis.sign", a, r.ok, r.err, 0, BufRef(x), privateKeyBuffer(x))
                   EXCEPT !.sig = r.sig, !.signed = r.ok, !.arg = message,
                          !.text = IF r.ok THEN _convertSignature(Serialized(r.sig))
                                   ELSE <<>>,
                          !.by = IF r.ok THEN a ELSE 0]
  /\ UNCHANGED <<heap, sks, nodes, accounts, hmacSalt, hist, pristine, arith, temps,
                 codec, manager, valisProvider>>

\* verify(message, signature): the signature is restored to the standard
\* format and then checked as in the EVM account.
ValisVerify(a, message, signature) ==
  /\ Tick
  /\ accounts[a].kind = "valis"
  /\ last' = VerifyOutcome("valis.verify", a, message, signature,
                           verifyMessage(message, _restoreSignature(signature)))
  /\ UNCHANGED <<heap, sks, nodes, accounts, hmacSalt, hist, pristine, arith, temps,
                 codec, manager, valisProvider>>

\* What makeTx answers: a rejection, or a response in which signthis (a
\* message, 0 when missing) and rawhex (a string, empty when missing) may
\* be missing.
RawHex == [i \in 1..132 |-> IF i <= 130 THEN "0" ELSE "e"]

MakeTxResponses == [ok : BOOLEAN, signthis : {0, 1}, rawhex : {<<>>, RawHex}]

\* sendTransaction(txParams): provider guard, makeTx, check of the response,
\* sign, then `return result = await this._provider.sendCommand(signedTx)`.
\* A ValisProvider has no sendCommand method, so the call throws a
\* TypeError before anything is submitted; on a provider object that has
\* one the command is submitted and the assignment to the undeclared result
\* then throws a ReferenceError, the module being strict code.
ValisSendTransaction(a, response, hasSendCommand) ==
  /\ Tick
  /\ accounts[a].kind = "valis"
  /\ LET x == accounts[a].node
         r == SigningKeySign(nodes[x].sk, hashMessage(response.signthis))
         signature == _convertSignature(Serialized(r.sig))
         signedTx == signature \o substring(response.rawhex, 130, Len(response.rawhex))
         out(ok, err) == [Outcome("valis.sendTransaction", a, ok, err, 0,
                                  BufRef(x), privateKeyBuffer(x))
                            EXCEPT !.arg = [response |-> response,
                                            hasSendCommand |-> hasSendCommand]]
     IN last' =
          IF ~accounts[a].config.provider
          THEN out(FALSE, "The wallet must be connected to a provider.")
          ELSE IF ~response.ok THEN [out(FALSE, "provider") EXCEPT !.asked = TRUE]
          ELSE IF response.signthis = 0 \/ response.rawhex = <<>>
          THEN [out(FALSE, "Invalid response from maketx: missing signthis or rawhex")
                  EXCEPT !.asked = TRUE]
          ELSE IF ~r.ok THEN [out(FALSE, r.err) EXCEPT !.asked = TRUE]
          ELSE IF ~hasSendCommand
          THEN [out(FALSE, "TypeError")
                  EXCEPT !.asked = TRUE, !.signed = TRUE, !.sig = r.sig, !.text = signature]
          ELSE [out(FALSE, "ReferenceError")
                  EXCEPT !.asked = TRUE, !.signed = TRUE, !.sig = r.sig, !.text = signature,
                         !.sent = signedTx]
  /\ UNCHANGED <<heap, sks, nodes, accounts, hmacSalt, hist, pristine, arith, temps,
                 codec, manager, valisProvider>>

Configs == [provider : BOOLEAN, transferMaxFee : {NoMaxFee, 0, 2}]

\* Valis accounts with and without provider sending transactions.
ValisNext ==
  \/ \E seed \in Seeds, path \in AccountPaths,
          config \in {c \in Configs : c.transferMaxFee = NoMaxFee} :
        NewValisAccount(seed, path, config)
  \/ \E a \in 1..Len(accounts) : AccountDispose(a)
  \/ \E a \in 1..Len(accounts), response \in MakeTxResponses, hasSendCommand \in BOOLEAN :
        ValisSendTransaction(a, response, hasSendCommand)

SpecValis == Init /\ [][ValisNext]_vars

(***************************************************************************)
(* WalletManagerEvm                                                        *)
(***************************************************************************)
\* The text of a number in a template literal.
IndexText(index) == IF index < 0 THEN <<"-">> \o Decimal(0 - index) ELSE Decimal(index)

\* A getAccount that leaves out the change level of the path.
GetAccountPathShort(index) == << <<"0", "'">>, IndexText(index) >>

\* The path of getAccount(index): `0'/0/${index}`.
GetAccountPath(index) == << <<"0", "'">>, <<"0">>, IndexText(index) >>

\* A lookup that never finds an entry.
LookupNever(map, path) == 0

\* this._accounts[path]: the position of the entry for path in the map, which
\* keeps its entries in the order they were added, 0 when there is none.
Lookup(map, path) ==
  IF \E i \in 1..Len(map) : map[i].path = path
  THEN CHOOSE i \in 1..Len(map) : map[i].path = path
  ELSE 0

\* getAccountByPath(path), recorded as op with argument arg: the account
\* the map holds for the path, or else a new account, which is put in the
\* map when its constructor returns.  handed collects what was returned
\* since the map was last emptied.
GetAccountByPathAs(op, arg, path) ==
  /\ Tick
  /\ LET i == Lookup(manager._accounts, path)
     IN IF i # 0
        THEN LET a == manager._accounts[i].account
                 x == accounts[a].node
             IN /\ last' = [Outcome(op, a, TRUE, "", x, BufRef(x), privateKeyBuffer(x))
                              EXCEPT !.arg = arg]
                /\ manager' = [manager EXCEPT !.handed = @ \cup {[path |-> path, account |-> a]}]
                /\ UNCHANGED <<heap, sks, nodes, accounts, hmacSalt, hist, pristine, arith,
                               temps, codec, valisProvider>>
        ELSE /\ NewAccountAs(op, arg, manager.seed, path, manager.config)
             /\ manager' =
                  IF last'.ok
                  THEN LET entry == [path |-> path, account |-> last'.target]
                       IN [manager EXCEPT !._accounts = Append(@, entry),
                                          !.handed = @ \cup {entry}]
                  ELSE manager

GetAccountByPath(path) == GetAccountByPathAs("getAccountByPath", path, path)

GetAccount(index) == GetAccountByPathAs("getAccount", index, GetAccountPath(index))

\* The loop of dispose over Object.values(this._accounts) from entry i on,
\* h and s being the heap and the signing keys so far: account.dispose()
\* zeroes the account's buffer and drops the reference, and throws on an
\* account whose reference is already dropped, which ends the loop.
RECURSIVE ManagerDisposeLoop(_, _, _, _)
ManagerDisposeLoop(map, i, h, s) ==
  IF i > Len(map) THEN [ok |-> TRUE, heap |-> h, sks |-> s, reached |-> Len(map)]
  ELSE LET k == nodes[accounts[map[i].account].node].sk
       IN IF s[k].buf = Undefined
          THEN [ok |-> FALSE, heap |-> h, sks |-> s, reached |-> i]
          ELSE ManagerDisposeLoop(map, i + 1, [h EXCEPT ![s[k].buf] = ZeroBytes],
                                  [s EXCEPT ![k].buf = Undefined])

\* dispose(): every account of the map is disposed in turn, then the map is
\* replaced by an empty one.
ManagerDispose ==
  /\ Tick
  /\ manager # NoManager
  /\ LET d == ManagerDisposeLoop(manager._accounts, 1, heap, sks)
         called == {accounts[manager._accounts[i].account].node : i \in 1..d.reached}
     IN /\ heap' = d.heap
        /\ sks' = d.sks
        /\ hist' = [x \in DOMAIN hist |->
                      IF x \in called THEN [hist[x] EXCEPT !.disposed = TRUE] ELSE hist[x]]
        /\ manager' = IF d.ok THEN [manager EXCEPT !._accounts = <<>>, !.handed = {}]
                      ELSE manager
        /\ last' = Outcome("manager.dispose", 0, d.ok, IF d.ok THEN "" ELSE "TypeError", 0,
                           0, NoBytes)
  /\ UNCHANGED <<nodes, accounts, hmacSalt, pristine, arith, temps, codec, valisProvider>>

ManagerPaths == { << <<"0", "'">>, <<"0">>, <<"0">> >>, << <<"a", "'">>, <<"b">>, <<"c">> >> }

ManagerIndices == {0 - 1, 0, 1}

\* A manager constructed over a seed, and the accounts it hands out.
ManagerInit ==
  /\ heap = <<>>
  /\ sks = <<>>
  /\ nodes = <<>>
  /\ accounts = <<>>
  /\ hmacSalt \in 0..(NumSalts - 1)
  /\ last = Outcome("init", 0, TRUE, "", 0, 0, NoBytes)
  /\ hist = <<>>
  /\ pristine = <<>>
  /\ arith = ArithIdle
  /\ temps = {}
  /\ codec = CodecIdle
  /\ \E seed \in {sd \in Seeds : sd.len = MinSeedLen},
        config \in {c \in Configs : c.transferMaxFee = NoMaxFee /\ ~c.provider} :
        manager = [seed |-> seed, config |-> config, _accounts |-> <<>>, handed |-> {}]
  /\ valisProvider = NoProvider
  /\ calls = 0

ManagerNext ==
  \/ \E index \in ManagerIndices : GetAccount(index)
  \/ \E path \in ManagerPaths : GetAccountByPath(path)
  \/ \E a \in 1..Len(accounts) : AccountDispose(a)
  \/ \E a \in 1..Len(accounts), message \in Messages : AccountSign(a, message)
  \/ ManagerDispose

SpecManager == ManagerInit /\ [][ManagerNext]_vars

(***************************************************************************)
(* ValisProvider.  getAccountInfo and makeTx are async: a call runs up to   *)
(* its first await, and goes on in a later step when the promise it waits  *)
(* for has settled.  The client's promises settle in steps of their own.   *)
(***************************************************************************)
\* The constructor: a client that is not connected, and no connect promise.
NewValisProvider == [_connectPromise |-> "null", connects |-> 0, client |-> "closed",
                     disposed |-> FALSE, callers |-> <<>>]

\* An _ensureConnected that connects on every call.
_ensureConnectedAlways(p) ==
  [p EXCEPT !._connectPromise = "pending", !.connects = @ + 1,
            !.client = IF p.disposed THEN @ ELSE "connecting"]

\* An _ensureConnected that connects anew after a connect that failed.
_ensureConnectedRetry(p) ==
  IF p._connectPromise \in {"null", "rejected"}
  THEN [p EXCEPT !._connectPromise = "pending", !.connects = @ + 1,
                 !.client = IF p.disposed THEN @ ELSE "connecting"]
  ELSE p

\* _ensureConnected up to its await: client.connect() is called when there
\* is no connect promise yet, and its promise is kept.
_ensureConnected(p) ==
  IF p._connectPromise = "null"
  THEN [p EXCEPT !._connectPromise = "pending", !.connects = @ + 1,
                 !.client = IF p.disposed THEN @ ELSE "connecting"]
  ELSE p

\* await: the caller goes on once the promise is no longer pending.
Settled(promise) == promise \in {"resolved", "rejected"}

ProviderKinds == {"getAccountInfo", "makeTx"}

\* getAccountInfo(address) or makeTx(transaction) up to the await of
\* _ensureConnected.  The caller remembers the state of the connect promise
\* it found, the number of connects made when it started to wait, and
\* whether dispose had been called.
ProviderCall(kind) ==
  /\ Tick
  /\ valisProvider.client # "none"
  /\ LET p == _ensureConnected(valisProvider)
     IN valisProvider' =
          [p EXCEPT !.callers =
             Append(@, [kind |-> kind, pc |-> "awaiting", err |-> "",
                        calledAt |-> valisProvider._connectPromise,
                        connectsAtCall |-> p.connects,
                        afterDispose |-> valisProvider.disposed,
                        sentAt |-> "", sentOn |-> ""])]
  /\ UNCHANGED <<heap, sks, nodes, accounts, hmacSalt, last, hist, pristine, arith, temps,
                 codec, manager>>

\* The promise of client.connect() settles.
ConnectSettles(ok) ==
  /\ valisProvider._connectPromise = "pending"
  /\ valisProvider' =
       [valisProvider EXCEPT !._connectPromise = IF ok THEN "resolved" ELSE "rejected",
                             !.client = IF valisProvider.disposed THEN @
                                        ELSE IF ok THEN "open" ELSE "closed"]
  /\ UNCHANGED <<heap, sks, nodes, accounts, hmacSalt, last, hist, pristine, arith, temps,
                 codec, manager, calls>>

\* A waiting caller goes on: it rejects with the error of the connect
\* promise, or issues client.sendCommand.
ProviderResume(c) ==
  /\ valisProvider.callers[c].pc = "awaiting"
  /\ Settled(valisProvider._connectPromise)
  /\ valisProvider' =
       IF valisProvider._connectPromise = "rejected"
       THEN [valisProvider EXCEPT !.callers[c].pc = "failed", !.callers[c].err = "connect"]
       ELSE [valisProvider EXCEPT !.callers[c].pc = "sending",
                                  !.callers[c].sentAt = valisProvider._connectPromise,
                                  !.callers[c].sentOn = valisProvider.client]
  /\ UNCHANGED <<heap, sks, nodes, accounts, hmacSalt, last, hist, pristine, arith, temps,
                 codec, manager, calls>>

\* The promise of client.sendCommand settles.
CommandSettles(c, ok) ==
  /\ valisProvider.callers[c].pc = "sending"
  /\ valisProvider' =
       [valisProvider EXCEPT !.callers[c].pc = IF ok THEN "done" ELSE "failed",
                             !.callers[c].err = IF ok THEN "" ELSE "command"]
  /\ UNCHANGED <<heap, sks, nodes, accounts, hmacSalt, last, hist, pristine, arith, temps,
                 codec, manager, calls>>

\* dispose(): client.disconnect(); the connect promise is left as it is.
ProviderDispose ==
  /\ Tick
  /\ valisProvider.client # "none"
  /\ valisProvider' = [valisProvider EXCEPT !.client = "disconnected", !.disposed = TRUE]
  /\ UNCHANGED <<heap, sks, nodes, accounts, hmacSalt, last, hist, pristine, arith, temps,
                 codec, manager>>

ProviderInit ==
  /\ heap = <<>>
  /\ sks = <<>>
  /\ nodes = <<>>
  /\ accounts = <<>>
  /\ hmacSalt = 0
  /\ last = Outcome("init", 0, TRUE, "", 0, 0, NoBytes)
  /\ hist = <<>>
  /\ pristine = <<>>
  /\ arith = ArithIdle
  /\ temps = {}
  /\ codec = CodecIdle
  /\ manager = NoManager
  /\ valisProvider = NewValisProvider
  /\ calls = 0

ProviderNext ==
  \/ \E kind \in ProviderKinds : ProviderCall(kind)
  \/ \E ok \in BOOLEAN : ConnectSettles(ok)
  \/ \E c \in 1..Len(valisProvider.callers) : ProviderResume(c)
  \/ \E c \in 1..Len(valisProvider.callers), ok \in BOOLEAN : CommandSettles(c, ok)
  \/ ProviderDispose

SpecProvider == ProviderInit /\ [][ProviderNext]_vars

\* One account and everything that can be done with it.
AccountNext ==
  \/ \E seed \in Seeds, path \in AccountPaths, config \in Configs :
        Len(accounts) = 0 /\ NewAccount(seed, path, config)
  \/ \E a \in 1..Len(accounts) : AccountDispose(a)
  \/ \E a \in 1..Len(accounts), message \in Messages : AccountSign(a, message)
  \/ \E a \in 1..Len(accounts), tx \in Messages, quoteOk \in BOOLEAN, providerOk \in BOOLEAN :
        AccountSendTransaction(a, tx, quoteOk, providerOk)
  \/ \E a \in 1..Len(accounts), tx \in Messages, fee \in Fees,
          quoteOk \in BOOLEAN, providerOk \in BOOLEAN :
        AccountTransfer(a, tx, fee, quoteOk, providerOk)
  \/ \E a \in 1..Len(accounts), providerOk \in BOOLEAN : AccountGetBalance(a, providerOk)
  \/ \E a \in 1..Len(accounts), providerOk \in BOOLEAN : AccountGetTokenBalance(a, providerOk)
  \/ \E a \in 1..Len(accounts), providerOk \in BOOLEAN :
        AccountQuoteSendTransaction(a, providerOk)
  \/ \E a \in 1..Len(accounts), providerOk \in BOOLEAN : AccountQuoteTransfer(a, providerOk)

\* Several accounts, each constructed from a seed and a path on its own.
DerivationSeeds == Seeds \cup {[len |-> MinSeedLen, id |-> 2, bytesLike |-> TRUE]}

DerivationConfigs == {c \in Configs : c.transferMaxFee = NoMaxFee /\ ~c.provider}

DerivationNext ==
  \/ \E seed \in DerivationSeeds, path \in AccountPaths, config \in DerivationConfigs :
        NewAccount(seed, path, config)
  \/ \E a \in 1..Len(accounts) : AccountDispose(a)

\* Accounts of both kinds signing and verifying.  A verify is given the
\* signature the previous call returned or checked, or a malformed one.
SignedMessages == {1, 2}

Malformed == <<"0", "x">>

SignatureNext ==
  \/ \E seed \in Seeds, path \in AccountPaths, config \in DerivationConfigs :
        NewAccount(seed, path, config)
  \/ \E seed \in Seeds, path \in AccountPaths, config \in DerivationConfigs :
        NewValisAccount(seed, path, config)
  \/ \E a \in 1..Len(accounts) : AccountDispose(a)
  \/ \E a \in 1..Len(accounts), message \in SignedMessages : AccountSign(a, message)
  \/ \E a \in 1..Len(accounts), message \in SignedMessages,
          signature \in {last.text, Malformed} : AccountVerify(a, message, signature)
  \/ \E a \in 1..Len(accounts), message \in SignedMessages : ValisSign(a, message)
  \/ \E a \in 1..Len(accounts), message \in SignedMessages,
          signature \in {last.text, Malformed} : ValisVerify(a, message, signature)

\* fromSeed over a wider range of seeds: at and around both length limits,
\* and values that are not bytes.
SeedInputs ==
  [len : {MinSeedLen - 1, MinSeedLen, MaxSeedLen, MaxSeedLen + 1}, id : {1},
   bytesLike : BOOLEAN]

SeedNext == \E seed \in SeedInputs : FromSeed(seed)

\* derivePath over a wider range of paths: with and without the root
\* marker, with a leading zero, with components that are not numbers, are
\* empty or are too large.
WidePaths ==
  { <<RootComponent>>,
    <<RootComponent, <<"1", "'">>, <<"0">> >>,
    << <<"0", "1">>, <<"1", "'">> >>,
    <<RootComponent, <<"a", "'">> >>,
    << <<"1">>, <<>>, <<"b">> >>,
    << <<"0">>, Decimal(HardenedBit) >> }

PathNext ==
  \/ \E seed \in Seeds : FromSeed(seed)
  \/ \E x \in 1..Len(nodes), components \in WidePaths : DerivePath(x, components)

NodeNext ==
  \/ \E seed \in Seeds : FromSeed(seed)
  \/ \E x \in 1..Len(nodes), index \in Indices : DeriveChild(x, index)
  \/ \E x \in 1..Len(nodes), components \in PathInputs : DerivePath(x, components)
  \/ \E x \in 1..Len(nodes) : Dispose(x)
  \/ \E x \in 1..Len(nodes), digest \in Digests : Sign(x, digest)

\* Nodes and the nodes connected to a provider from them.
ConnectNext ==
  \/ \E seed \in Seeds : FromSeed(seed)
  \/ \E x \in 1..Len(nodes), index \in {0, HardenedBit} : DeriveChild(x, index)
  \/ \E x \in 1..Len(nodes) : Connect(x)
  \/ \E x \in 1..Len(nodes) : Dispose(x)

\* The key engine used directly.
Next == NodeNext

Spec == Init /\ [][Next]_vars

\* Connecting nodes to a provider.
SpecConnect == Init /\ [][ConnectNext]_vars

\* Wallet accounts, which keep their node to themselves.
SpecAccount == Init /\ [][AccountNext]_vars

\* Master nodes and the nodes reached from them by paths.
SpecPath == Init /\ [][PathNext]_vars

\* Master nodes from seeds of every kind.
SpecSeed == Init /\ [][SeedNext]_vars

\* Signing and verifying with EVM and Valis accounts.
SpecSignature == Init /\ [][SignatureNext]_vars

\* Independent derivations of accounts and their disposal.
SpecDerivation == Init /\ [][DerivationNext]_vars

(***************************************************************************)
(* The child key arithmetic on its own: lines 141-145 of deriveChild for   *)
(* every parent key and every IL.                                          *)
(***************************************************************************)
ArithInit ==
  /\ heap = <<>>
  /\ sks = <<>>
  /\ nodes = <<>>
  /\ accounts = <<>>
  /\ hmacSalt = 0
  /\ last = Outcome("init", 0, TRUE, "", 0, 0, NoBytes)
  /\ hist = <<>>
  /\ pristine = <<>>
  /\ temps = {}
  /\ codec = CodecIdle
  /\ manager = NoManager
  /\ valisProvider = NoProvider
  /\ calls = 0
  /\ \E k \in 1..(CurveOrder - 1), x \in 0..(KeySpace - 1) :
        arith = [pc |-> "start", k |-> ToBytes(k), IL |-> ToBytes(x),
                 buf |-> ToBytes(k), overflow |-> FALSE]

ArithAdd ==
  /\ arith.pc = "start"
  /\ LET added == addToPrivateKey(arith.buf, arith.IL)
     IN arith' = [arith EXCEPT !.pc = "added", !.buf = added.buf, !.overflow = added.overflow]
  /\ UNCHANGED <<heap, sks, nodes, accounts, hmacSalt, last, hist, pristine, temps,
                 codec, manager, valisProvider, calls>>

ArithReduce ==
  /\ arith.pc = "added"
  /\ arith' = [arith EXCEPT !.pc = "done",
                            !.buf = IF arith.overflow \/ compareWithCurveOrder(arith.buf) >= 0
                                    THEN subtractFromPrivateKey(arith.buf)
                                    ELSE arith.buf]
  /\ UNCHANGED <<heap, sks, nodes, accounts, hmacSalt, last, hist, pristine, temps,
                 codec, manager, valisProvider, calls>>

ArithNext == ArithAdd \/ ArithReduce

SpecArith == ArithInit /\ [][ArithNext]_vars

(***************************************************************************)
(* WalletAccountValis: the signature codec.  Signatures are strings, here  *)
(* sequences of characters, at their real lengths.                         *)
(***************************************************************************)
Repeat(c, n) == [i \in 1..n |-> c]

\* Signatures to convert: r and s of 64 hex digits each, v as two hex digits
\* of either case, with and without the "0x" prefix.
SignatureInputs ==
  { prefix \o Repeat(rc, 64) \o Repeat(sc, 64) \o v :
      prefix \in {<<"0", "x">>, <<>>}, rc \in {"a", "0"}, sc \in {"F", "7"},
      v \in {<<"1", "b">>, <<"1", "c">>, <<"1", "B">>, <<"1", "C">>} }

\* Compact signatures received from elsewhere.
CompactInputs ==
  { Repeat(rc, 64) \o Repeat(sc, 64) \o v :
      rc \in {"a", "0"}, sc \in {"F", "7"},
      v \in {<<"0">>, <<"1">>, <<"2">>, <<>>, <<"0", "0">>} }

CodecInit ==
  /\ heap = <<>>
  /\ sks = <<>>
  /\ nodes = <<>>
  /\ accounts = <<>>
  /\ hmacSalt = 0
  /\ last = Outcome("init", 0, TRUE, "", 0, 0, NoBytes)
  /\ hist = <<>>
  /\ pristine = <<>>
  /\ arith = ArithIdle
  /\ temps = {}
  /\ manager = NoManager
  /\ valisProvider = NoProvider
  /\ calls = 0
  /\ \/ \E sig \in SignatureInputs :
           codec = [pc |-> "start", sig |-> sig, out |-> <<>>, back |-> <<>>]
     \/ \E compact \in CompactInputs :
           codec = [pc |-> "converted", sig |-> <<>>, out |-> compact, back |-> <<>>]

CodecConvert ==
  /\ codec.pc = "start"
  /\ codec' = [codec EXCEPT !.pc = "converted", !.out = _convertSignature(codec.sig)]
  /\ UNCHANGED <<heap, sks, nodes, accounts, hmacSalt, last, hist, pristine, arith,
                 temps, manager, valisProvider, calls>>

CodecRestore ==
  /\ codec.pc = "converted"
  /\ codec' = [codec EXCEPT !.pc = "restored", !.back = _restoreSignature(codec.out)]
  /\ UNCHANGED <<heap, sks, nodes, accounts, hmacSalt, last, hist, pristine, arith,
                 temps, manager, valisProvider, calls>>

CodecNext == CodecConvert \/ CodecRestore

SpecCodec == CodecInit /\ [][CodecNext]_vars

(***************************************************************************)
(* Properties                                                              *)
(***************************************************************************)
NodeIds == 1..Len(nodes)

Derived(x) == hist[x].via \in {"fromSeed", "deriveChild", "derivePath"}

\* C1: deriveChild never changes the parent's private key: after a
\* deriveChild call returns, the bytes of the node it was called on are the
\* bytes it held before the call.
C1_ParentKeyUnchanged ==
  (last.op = "deriveChild" /\ last.ok) => privateKeyBuffer(last.target) = last.before

\* C2: sibling derivation is order-independent: a child derived from a
\* master node on which only deriveChild has been called has the private key
\* and chain code that the same index yields on the freshly built node.
C2_SiblingOrderIndependent ==
  \A c \in NodeIds :
    (hist[c].via = "deriveChild" /\ hist[c].siblingsOnly) =>
      LET p == hist[c].parent
          alone == DeriveChildCalc(hmacSalt, nodes[p], hist[p].key, nodes[c].index)
      IN /\ alone.ok
         /\ alone.buf = hist[c].key
         /\ alone.node.chainCode = nodes[c].chainCode

\* C3: private key buffers are exclusively owned: no two nodes made by
\* fromSeed or deriveChild refer to the same buffer, and a dispose of one
\* node leaves no other node with zeroed key bytes.
C3_ExclusiveBuffers ==
  /\ \A x, y \in NodeIds :
        (x # y /\ Derived(x) /\ Derived(y) /\ BufRef(x) # Undefined) => BufRef(x) # BufRef(y)
  /\ (last.op = "dispose" /\ last.ok) =>
        \A y \in NodeIds :
          (y # last.target /\ BufRef(y) # Undefined) => privateKeyBuffer(y) # ZeroBytes

\* C4: dispose erases the key in place: the buffer the node referred to
\* before a successful dispose reads all zero bytes after it.
C4_DisposeErasesInPlace ==
  (last.op = "dispose" /\ last.ok) => heap[last.ref] = ZeroBytes

C4_Witness ==
  /\ last.op = "dispose" /\ last.ok
  /\ last.before # ZeroBytes
  /\ heap[last.ref] = ZeroBytes
  /\ \E y \in NodeIds : y # last.target /\ BufRef(y) = last.ref

\* C5: use after dispose fails loudly: once dispose has been called on an
\* account its keyPair.privateKey is undefined, and a sign, sendTransaction
\* or transfer on it fails and yields no signature and no hash.
C5_UseAfterDisposeFails ==
  \A a \in 1..Len(accounts) :
    hist[accounts[a].node].disposed =>
      /\ keyPair(a).privateKey = Undefined
      /\ (last.target = a /\ last.op \in {"account.sign", "account.sendTransaction",
                                           "account.transfer"}) =>
            (~last.ok /\ last.sig = NoSig /\ last.hash = 0 /\ ~last.signed)

C5_Witness ==
  /\ last.op = "account.transfer"
  /\ hist[accounts[last.target].node].disposed
  /\ last.err = "Uint8Array expected"

\* C6: disposal is idempotent: a dispose on a node whose key is already
\* disposed completes without raising an error.
C6_DisposeIdempotent ==
  (last.op = "dispose" /\ last.ref = Undefined) => last.ok

\* C7: no partial mutation on failure: when deriveChild, derivePath or sign
\* fails, the key bytes of the node it was called on are what they were
\* before the call.
C7_NoPartialMutation ==
  (last.op \in {"deriveChild", "derivePath", "sign"} /\ ~last.ok) =>
    privateKeyBuffer(last.target) = last.before

\* C8: the cached public values of every non-disposed node are those of the
\* bytes currently held in its private key buffer.
C8_CachedPublicMatchesKey ==
  \A x \in NodeIds :
    BufRef(x) # Undefined =>
      /\ publicKeyBuffer(x) = CompressedPublicKey(privateKeyBuffer(x))
      /\ nodes[x].publicKey = CompressedPublicKey(privateKeyBuffer(x))
      /\ nodes[x].fingerprint = Fingerprint(CompressedPublicKey(privateKeyBuffer(x)))
      /\ nodes[x].address = ComputeAddress(privateKeyBuffer(x))

\* C9: curve-order invariant: every node returned by fromSeed, deriveChild
\* or derivePath that has a private key buffer holds in it a value in 1..n-1.
C9_CurveOrderInvariant ==
  (/\ last.op \in {"fromSeed", "deriveChild", "derivePath"}
   /\ last.ok
   /\ BufRef(last.result) # Undefined) =>
    /\ ToInt(privateKeyBuffer(last.result)) >= 1
    /\ ToInt(privateKeyBuffer(last.result)) <= CurveOrder - 1

\* C10: the byte-wise child key computation equals modular addition: for
\* every key k in 1..n-1 and every IL, the buffer ends holding (k + IL) mod n.
C10_ModularAddition ==
  arith.pc = "done" => ToInt(arith.buf) = (ToInt(arith.k) + ToInt(arith.IL)) % CurveOrder

C12_NoKeyCopyEscapes ==
  (last.op = "account.dispose" /\ last.ok) =>
    \A t \in temps : t.chain = last.ref => t.key = ZeroBytes

\* A standard signature: "0x", then 130 hex digits of which the last two
\* spell 27 or 28.
IsStandardSignature(sig) ==
  /\ Len(sig) = 132
  /\ startsWith0x(sig)
  /\ \A i \in 3..132 : IsHexChar(sig[i])
  /\ HexVal(sig[131]) * 16 + HexVal(sig[132]) \in {27, 28}

\* C13 as stated: for every standard signature sig with v in {27, 28},
\* _restoreSignature(_convertSignature(sig)) = sig.
C13_RoundTrip ==
  (codec.pc = "restored" /\ IsStandardSignature(codec.sig)) => codec.back = codec.sig

\* C13 amended: the round trip returns sig for every standard signature
\* whose v is written in lower-case hex digits ("1b" or "1c").
C13_RoundTripLowerCaseV ==
  (/\ codec.pc = "restored"
   /\ IsStandardSignature(codec.sig)
   /\ SubSeq(codec.sig, 131, 132) \in {<<"1", "b">>, <<"1", "c">>}) =>
    codec.back = codec.sig

C13_Witness ==
  /\ codec.pc = "restored"
  /\ IsStandardSignature(codec.sig)
  /\ SubSeq(codec.sig, 131, 132) = <<"1", "c">>
  /\ codec.sig[3] # codec.sig[67]
  /\ codec.back = codec.sig

\* The hex digits of a signature to convert, without its optional prefix.
Body(sig) == IF startsWith0x(sig) THEN SubSeq(sig, 3, Len(sig)) ELSE sig

\* C14: _convertSignature strips an optional "0x", keeps r and s and appends
\* "0" for v = 27 and "1" for v = 28, giving 129 characters without prefix;
\* _restoreSignature yields v = 27 exactly when the text after the first 128
\* characters is "0", and v = 28 for every other text.
C14_RecoveryByteMapping ==
  /\ (codec.pc \in {"converted", "restored"} /\ codec.sig # <<>>) =>
        LET v == HexVal(Body(codec.sig)[129]) * 16 + HexVal(Body(codec.sig)[130])
        IN /\ Len(codec.out) = 129
           /\ SubSeq(codec.out, 1, 128) = SubSeq(Body(codec.sig), 1, 128)
           /\ v = 27 => codec.out[129] = "0"
           /\ v = 28 => codec.out[129] = "1"
  /\ codec.pc = "restored" =>
        /\ Len(codec.back) = 132
        /\ SubSeq(codec.back, 1, 2) = <<"0", "x">>
        /\ SubSeq(codec.back, 3, 130) = SubSeq(codec.out, 1, 128)
        /\ SubSeq(codec.back, 131, 132) =
              IF SubSeq(codec.out, 129, Len(codec.out)) = <<"0">>
              THEN <<"1", "b">> ELSE <<"1", "c">>

C14_Witness ==
  /\ codec.pc = "restored"
  /\ codec.sig = <<>>
  /\ SubSeq(codec.out, 129, Len(codec.out)) = <<"2">>
  /\ SubSeq(codec.back, 131, 132) = <<"1", "c">>

\* C15: sign/verify round trip: when account A verifies a signature that its
\* own sign made of message m, the verdict is true for m, and for any other
\* message it is false whenever the address recovered for that message is
\* not A's; for the EVM account with the standard signature and for the
\* Valis account with the compact one.
C15_SignVerifyRoundTrip ==
  (last.op \in {"account.verify", "valis.verify"} /\ last.by = last.target) =>
    LET A == nodes[accounts[last.target].node]
        recovered == AddressOfPoint(RecoverPoint(hashMessage(last.arg).id, last.sig))
    IN /\ last.ok
       /\ hashMessage(last.arg).id = last.sig.digest => last.valid
       /\ recovered # A.address => ~last.valid

C15_Witness ==
  /\ last.op = "valis.verify"
  /\ last.by = last.target
  /\ last.arg = last.sig.digest
  /\ last.sig.v = 28
  /\ last.valid

\* C16: root anchoring: derivePath with a path whose first component is "m"
\* succeeds only on a node of depth 0; on a node of depth > 0 it fails with
\* the invalid-path error, makes no deriveChild step, returns no node and
\* leaves the key bytes as they were.
C16_RootAnchoring ==
  (/\ last.op = "derivePath"
   /\ last.arg[1] = RootComponent
   /\ nodes[last.target].depth > 0) =>
    /\ ~last.ok
    /\ last.err = "invalid path"
    /\ last.steps = 0
    /\ last.result = 0
    /\ privateKeyBuffer(last.target) = last.before

C16_Witness ==
  /\ last.op = "derivePath"
  /\ Len(last.arg) = 2
  /\ last.arg[1] = RootComponent
  /\ nodes[last.target].depth > 0
  /\ ValidPrivateKey(last.before)
  /\ last.err = "invalid path"

\* The components of a supplied path that derivePath does not take: not of
\* the form ^[0-9]+'?$ or with a number of 0x80000000 or more.  The root
\* marker in first place is no component to reject.
Rejected(component) ==
  IF MatchesHardened(component)
  THEN parseInt(SubSeq(component, 1, Len(component) - 1), 0) >= HardenedBit
  ELSE IF MatchesNormal(component)
  THEN parseInt(component, 0) >= HardenedBit
  ELSE TRUE

RejectedPositions(path) ==
  {i \in 1..Len(path) : Rejected(path[i]) /\ ~(i = 1 /\ path[1] = RootComponent)}

LeftmostRejected(path) ==
  CHOOSE i \in RejectedPositions(path) : \A j \in RejectedPositions(path) : i <= j

\* C17: path component rejection: a derivePath whose path has a component
\* that is not of the form ^[0-9]+'?$ or is 0x80000000 or more returns no
\* node, and when it fails on a component the error names the leftmost such
\* component and its zero-based position in the path as the caller gave it.
C17_PathComponentRejection ==
  (last.op = "derivePath" /\ RejectedPositions(last.arg) # {}) =>
    /\ ~last.ok
    /\ last.result = 0
    /\ last.err \in {"invalid path component", "invalid path index"} =>
          /\ last.named = last.arg[LeftmostRejected(last.arg)]
          /\ last.at = LeftmostRejected(last.arg) - 1

\* The steps of a supplied path: its components without the root marker.
StepsOf(path) == IF path[1] = RootComponent THEN Tail(path) ELSE path

\* The index a valid component stands for, with the hardened bit.
IndexOf(component) ==
  IF MatchesHardened(component)
  THEN HardenedBit + parseInt(SubSeq(component, 1, Len(component) - 1), 0)
  ELSE parseInt(component, 0)

\* "m" followed by "/" and the decimal index without the hardened bit, and
\* "'" when hardened, for each step in order.
RECURSIVE PathTextOf(_)
PathTextOf(steps) ==
  IF steps = <<>> THEN <<"m">>
  ELSE LET index == IndexOf(steps[Len(steps)])
       IN PathTextOf(SubSeq(steps, 1, Len(steps) - 1))
            \o <<"/">> \o Decimal(index % HardenedBit)
            \o (IF index >= HardenedBit THEN <<"'">> ELSE <<>>)

\* C18: node metadata follows the path: the node derivePath returns for a
\* master node and a path of k valid components has depth k, the index of
\* the last component with the hardened bit when it is hardened, the
\* fingerprint of the node one step earlier as parent fingerprint, and the
\* path text built from the components in order.
C18_MetadataFollowsPath ==
  (last.op = "derivePath" /\ last.ok /\ hist[last.target].via = "fromSeed") =>
    LET steps == StepsOf(last.arg)
        k == Len(steps)
        n == nodes[last.result]
        earlier == IF k = 1 THEN nodes[last.target]
                   ELSE DerivePathCalc(hmacSalt, nodes[last.target], last.before,
                                       SubSeq(steps, 1, k - 1)).node
    IN /\ n.depth = k
       /\ n.path = PathTextOf(steps)
       /\ k >= 1 => /\ n.index = IndexOf(steps[k])
                    /\ n.parentFingerprint = earlier.fingerprint

C18_Witness ==
  /\ last.op = "derivePath" /\ last.ok
  /\ hist[last.target].via = "fromSeed"
  /\ last.arg = << <<"0", "1">>, <<"1", "'">> >>
  /\ nodes[last.result].depth = 2
  /\ nodes[last.result].index = HardenedBit + 1
  /\ nodes[last.result].path = <<"m", "/", "1", "/", "1", "'">>

\* A seed fromSeed is to take: bytes, 16 to 64 of them.
AcceptableSeed(seed) == seed.bytesLike /\ seed.len >= MinSeedLen /\ seed.len <= MaxSeedLen

\* The metadata of a master node.
IsMasterNode(n) ==
  n.depth = 0 /\ n.index = 0 /\ n.parentFingerprint = 0 /\ n.path = <<"m">>

\* C19 as stated: fromSeed returns a node exactly when the seed is a byte
\* sequence of length 16 to 64; for every other input it fails with the
\* invalid-seed error and creates no node; every master node returned has
\* depth 0, index 0, parent fingerprint 0 and path "m".
C19_SeedAcceptance ==
  last.op = "fromSeed" =>
    /\ last.ok <=> AcceptableSeed(last.arg)
    /\ ~AcceptableSeed(last.arg) => (last.err = "invalid seed" /\ last.result = 0)
    /\ last.ok => IsMasterNode(nodes[last.result])

\* C19 amended: fromSeed fails with the invalid-seed error, creating no node,
\* exactly when the seed is not a byte sequence of length 16 to 64; a seed
\* in that range yields a master node unless the left half of its HMAC is
\* not a private key in 1..n-1, and then the call fails without a node;
\* every master node returned has depth 0, index 0, parent fingerprint 0
\* and path "m".
C19_SeedAcceptanceUpToKeyRange ==
  last.op = "fromSeed" =>
    /\ last.err = "invalid seed" <=> ~AcceptableSeed(last.arg)
    /\ ~last.ok => last.result = 0
    /\ AcceptableSeed(last.arg) =>
          (last.ok <=> ValidPrivateKey(computeHmac(hmacSalt, MasterSecret,
                                                   SeedBytes(last.arg)).IL))
    /\ last.ok => IsMasterNode(nodes[last.result])

C19_Witness ==
  /\ last.op = "fromSeed" /\ last.ok
  /\ last.arg.len = MaxSeedLen
  /\ Len(nodes) = 2
  /\ IsMasterNode(nodes[last.result])
  /\ privateKeyBuffer(1) # privateKeyBuffer(2)

\* C20: deriveChild on a node without a usable private key never returns a
\* node: with a hardened index on a disposed node it fails with
\* UNSUPPORTED_OPERATION, and with a normal index on a node whose key was
\* erased, by its own dispose or by the dispose of a node sharing its
\* buffer, it fails instead of building a child from zero or stale bytes.
C20_NoChildWithoutKey ==
  LET erased == \/ last.ref = Undefined
                \/ /\ last.before = ZeroBytes
                   /\ \E y \in NodeIds : hist[y].buf = last.ref /\ hist[y].disposed
  IN (last.op = "deriveChild" /\ erased) =>
       /\ ~last.ok
       /\ last.result = 0
       /\ (last.ref = Undefined /\ IsHardened(last.arg)) => last.err = "UNSUPPORTED_OPERATION"

\* C21: SigningKey.sign on a live key, one whose dispose has not been called,
\* fails with the invalid-digest-length error for every digest that is not
\* 32 bytes long, whatever the key bytes are, and for every 32-byte digest
\* returns a signature whose v is 27 when the recovery bit is 0 and 28 when
\* it is 1.
C21_SignContract ==
  (last.op = "sign" /\ last.ref # Undefined) =>
    /\ last.arg.len # DigestLen =>
          (~last.ok /\ last.err = "invalid digest length" /\ last.sig = NoSig)
    /\ last.arg.len = DigestLen =>
          /\ last.ok
          /\ last.sig.v = IF (PublicPoint(last.before) + last.arg.id) % 2 = 0 THEN 27 ELSE 28

\* The nodes that connect made from x, or that x was made from by connect.
ConnectedTo(x) ==
  {y \in NodeIds : \/ hist[y].via = "connect" /\ hist[y].parent = x
                   \/ hist[x].via = "connect" /\ hist[x].parent = y}

\* C22: connect(provider) is pure composition: the node it returns has the
\* signing key, chain code, parent fingerprint, path, index and depth of the
\* node it was called on; the call changes no field of any existing node and
\* no key bytes and makes no signing key; and a dispose of either node leaves
\* both without a private key.
C22_ConnectIsComposition ==
  /\ [][last'.op = "connect" /\ calls' # calls =>
          /\ SubSeq(nodes', 1, Len(nodes)) = nodes
          /\ heap' = heap /\ sks' = sks
          /\ Len(nodes') = Len(nodes) + (IF last'.ok THEN 1 ELSE 0)
          /\ last'.ok =>
                LET o == nodes[last'.target]
                    c == nodes'[last'.result]
                IN /\ c.sk = o.sk
                   /\ c.chainCode = o.chainCode
                   /\ c.parentFingerprint = o.parentFingerprint
                   /\ c.path = o.path /\ c.index = o.index /\ c.depth = o.depth]_vars
  /\ []((last.op = "dispose" /\ last.ok) =>
          \A y \in ConnectedTo(last.target) : BufRef(y) = Undefined)

C22_Witness ==
  /\ last.op = "dispose" /\ last.ok
  /\ hist[last.target].via = "connect"
  /\ ValidPrivateKey(last.before)
  /\ nodes[last.target].depth = 1
  /\ BufRef(hist[last.target].parent) = Undefined

\* The path a call of the manager asks for.
PathOfCall(op, arg) ==
  IF op = "getAccount" THEN << <<"0", "'">>, <<"0">>, IndexText(arg) >> ELSE arg

\* C23: wallet manager disposal erases every account: a manager.dispose()
\* completes, leaves every account the manager has returned without private
\* key and with sign rejecting, and leaves the account map empty.
C23_ManagerDisposeErasesAll ==
  last.op = "manager.dispose" =>
    /\ last.ok
    /\ manager._accounts = <<>>
    /\ \A a \in 1..Len(accounts) :
          /\ keyPair(a).privateKey = Undefined
          /\ ~SigningKeySign(nodes[accounts[a].node].sk, hashMessage(1)).ok

\* The entries of the account map.
Entries == {manager._accounts[i] : i \in 1..Len(manager._accounts)}

\* C24: account cache identity: from one emptying of the account map by
\* manager.dispose() to the next, every call of getAccountByPath with the
\* same path returns the same account object, getAccount(i) returns the
\* object held for the path "0'/0/" followed by i, the map holds exactly
\* the paths for which an account was returned, each with that account, and
\* a call that throws adds no entry.
C24_CacheIdentity ==
  /\ \A e, f \in manager.handed : e.path = f.path => e.account = f.account
  /\ Entries = manager.handed
  /\ Cardinality(Entries) = Len(manager._accounts)
  /\ last.op \in {"getAccount", "getAccountByPath"} =>
        IF last.ok
        THEN [path |-> PathOfCall(last.op, last.arg), account |-> last.target] \in Entries
        ELSE \A e \in Entries : e.path # PathOfCall(last.op, last.arg)

C24_Witness ==
  /\ last.op = "getAccountByPath" /\ last.ok
  /\ last.ref # Undefined
  /\ Len(accounts) = 2
  /\ manager._accounts = <<[path |-> << <<"0", "'">>, <<"0">>, <<"0">> >>, account |-> 2]>>
  /\ hist[accounts[1].node].disposed

\* C27: the manager never hands out a dead account: every account that
\* getAccount or getAccountByPath returns has a private key and can sign at
\* the moment it is returned.
C27_NoDeadAccount ==
  (last.op \in {"getAccount", "getAccountByPath"} /\ last.ok) =>
    /\ keyPair(last.target).privateKey # Undefined
    /\ SigningKeySign(nodes[accounts[last.target].node].sk, hashMessage(1)).ok

\* C25: transfer fee cap: on an account configured with transferMaxFee, a
\* transfer whose quoted fee is greater than or equal to the cap is rejected
\* with 'Exceeded maximum fee cost for transfer operation.' and nothing is
\* signed or sent; a transaction is signed or sent only for a quoted fee
\* strictly less than the cap.
C25_TransferFeeCap ==
  (/\ last.op = "account.transfer"
   /\ accounts[last.target].config.transferMaxFee # NoMaxFee) =>
    LET cap == accounts[last.target].config.transferMaxFee
    IN /\ (last.arg.quoted /\ last.arg.fee >= cap) =>
             /\ ~last.ok
             /\ last.err = "Exceeded maximum fee cost for transfer operation."
             /\ ~last.signed /\ last.sig = NoSig /\ last.hash = 0
       /\ (last.signed \/ last.hash # 0) => (last.arg.quoted /\ last.arg.fee < cap)

C25_Witness ==
  /\ last.op = "account.transfer"
  /\ accounts[last.target].config.transferMaxFee = 2
  /\ last.arg.fee = 2
  /\ last.err = "Exceeded maximum fee cost for transfer operation."
  /\ ValidPrivateKey(last.before)

\* The message with which each provider-dependent method refuses an account
\* that has no provider.
GuardMessage(op) ==
  "The wallet must be connected to a provider to " \o
    (CASE op = "account.getBalance" -> "retrieve balances."
       [] op = "account.getTokenBalance" -> "retrieve token balances."
       [] op = "account.sendTransaction" -> "send transactions."
       [] op = "account.quoteSendTransaction" -> "quote send transaction operations."
       [] op = "account.transfer" -> "transfer tokens."
       [] op = "account.quoteTransfer" -> "quote transfer operations.")

ProviderMethods ==
  {"account.getBalance", "account.getTokenBalance", "account.sendTransaction",
   "account.quoteSendTransaction", "account.transfer", "account.quoteTransfer"}

\* C26: provider guard: on an account constructed without a provider, each
\* of getBalance, getTokenBalance, sendTransaction, quoteSendTransaction,
\* transfer and quoteTransfer rejects with its own message, signs nothing,
\* calls no method of a provider and leaves the account's key as it was.
C26_ProviderGuard ==
  (/\ last.op \in ProviderMethods
   /\ ~accounts[last.target].config.provider) =>
    /\ ~last.ok
    /\ last.err = GuardMessage(last.op)
    /\ ~last.signed /\ last.sig = NoSig /\ last.hash = 0
    /\ ~last.asked
    /\ BufRef(accounts[last.target].node) = last.ref
    /\ privateKeyBuffer(accounts[last.target].node) = last.before

C26_Witness ==
  /\ last.op = "account.quoteTransfer"
  /\ ~accounts[last.target].config.provider
  /\ ValidPrivateKey(last.before)
  /\ last.err = "The wallet must be connected to a provider to quote transfer operations."

Callers == 1..Len(valisProvider.callers)

\* C28: ValisProvider connects once and before any command: however the
\* calls of getAccountInfo and makeTx interleave, once a call has been made
\* client.connect() has been invoked exactly once, and every sendCommand
\* was issued when that connect had resolved.
C28_ConnectOnceBeforeCommands ==
  /\ valisProvider.connects <= 1
  /\ Callers # {} => valisProvider.connects = 1
  /\ \A c \in Callers :
        valisProvider.callers[c].pc \in {"sending", "done"} =>
          valisProvider.callers[c].sentAt = "resolved"
  /\ \A c \in Callers :
        valisProvider.callers[c].err = "command" => valisProvider.callers[c].sentAt = "resolved"

C28_Witness ==
  /\ Len(valisProvider.callers) = 3
  /\ valisProvider.callers[1].kind # valisProvider.callers[2].kind
  /\ valisProvider.callers[2].calledAt = "pending"
  /\ valisProvider.callers[3].calledAt = "resolved"
  /\ \A c \in Callers : valisProvider.callers[c].pc = "sending"
  /\ valisProvider.connects = 1

\* C29: the connection state is sticky: once the first client.connect() has
\* rejected, every call that goes on rejects with the connect error without
\* a command and without another connect, also a call made after the
\* rejection; and a call made after dispose() on a provider that has
\* connected before makes no connect and sends its command on the
\* disconnected client.
C29_StickyConnection ==
  /\ valisProvider._connectPromise = "rejected" =>
        /\ valisProvider.connects = 1
        /\ \A c \in Callers :
              valisProvider.callers[c].pc # "awaiting" =>
                /\ valisProvider.callers[c].pc = "failed"
                /\ valisProvider.callers[c].err = "connect"
                /\ valisProvider.callers[c].sentAt = ""
  /\ \A c \in Callers :
        valisProvider.callers[c].calledAt = "rejected" =>
          /\ valisProvider.callers[c].connectsAtCall = 1
          /\ valisProvider._connectPromise = "rejected"
  /\ \A c \in Callers :
        (valisProvider.callers[c].afterDispose /\ valisProvider.callers[c].calledAt # "null") =>
          /\ valisProvider.callers[c].connectsAtCall = 1
          /\ valisProvider.connects = 1
          /\ valisProvider.callers[c].sentAt # "" =>
                valisProvider.callers[c].sentOn = "disconnected"

C29_Witness ==
  /\ Len(valisProvider.callers) = 3
  /\ valisProvider.callers[1].err = "connect"
  /\ valisProvider.callers[2].calledAt = "rejected"
  /\ valisProvider.callers[2].pc = "failed"
  /\ valisProvider.callers[3].afterDispose
  /\ valisProvider.callers[3].err = "connect"
  /\ valisProvider.connects = 1

\* C30: WalletAccountValis.sendTransaction step order: without provider it
\* rejects and makeTx is not called; when the response of makeTx lacks
\* signthis or rawhex it rejects with 'Invalid response from maketx: missing
\* signthis or rawhex' and signs nothing; otherwise, on an account that can
\* sign, it signs signthis, submits the compact signature followed by
\* rawhex from character 130 on, and resolves.
C30_SendTransactionSteps ==
  last.op = "valis.sendTransaction" =>
    LET response == last.arg.response
        complete == response.signthis # 0 /\ response.rawhex # <<>>
    IN IF ~accounts[last.target].config.provider
       THEN ~last.ok /\ ~last.asked /\ ~last.signed
       ELSE /\ (response.ok /\ ~complete) =>
                 /\ ~last.ok
                 /\ last.err = "Invalid response from maketx: missing signthis or rawhex"
                 /\ ~last.signed
            /\ (response.ok /\ complete /\ ValidPrivateKey(last.before)) =>
                 /\ last.signed
                 /\ last.sig.digest = response.signthis
                 /\ last.sent = last.text \o SubSeq(response.rawhex, 131, Len(response.rawhex))
                 /\ last.ok

====
